---- MODULE Spec2Model ----
(***************************************************************************)
(* A model of the Sticker Dream client (src/src/client.ts): the voice and  *)
(* text generation pipelines, the MediaRecorder handling, the sticker      *)
(* sheet state, the sheet rasterizer and the print dispatcher.             *)
(*                                                                         *)
(* The browser runs one task at a time.  Every action below is one task:   *)
(* an event handler from its start to its first real await (a promise the  *)
(* browser resolves in a later task), or the continuation of a handler     *)
(* from one such await to the next.  An await of a function that does not  *)
(* itself wait (setupRecorder, an early return of generateImage) resumes   *)
(* in a microtask of the same task and stays inside the action.            *)
(***************************************************************************)
EXTENDS Integers, Sequences, FiniteSets, TLC

\* ------------------------------------------------------------------ bounds

\* User turns (pointerdown presses plus text submissions) in one behaviour.
MaxTurns == 2

\* ----------------------------------------------------------------- strings
\* A string is a sequence of one-character strings.

LowerLetters ==
  <<"a","b","c","d","e","f","g","i","k","l","m","n","o","r","s","t","v">>
UpperLetters ==
  <<"A","B","C","D","E","F","G","I","K","L","M","N","O","R","S","T","V">>

\* String.prototype.toUpperCase, one character.
ToUpperChar(c) ==
  IF \E i \in 1..Len(LowerLetters) : LowerLetters[i] = c
    THEN UpperLetters[CHOOSE i \in 1..Len(LowerLetters) : LowerLetters[i] = c]
    ELSE c

\* A plausible slip: matching the transcript as it is, without upper-casing.
ToUpperCaseNoFold(s) == s

\* String.prototype.toUpperCase.
ToUpperCase(s) == [i \in 1..Len(s) |-> ToUpperChar(s[i])]

\* String.prototype.includes: w occurs in s as a contiguous run.
Includes(s, w) ==
  \E i \in 0..(Len(s) - Len(w)) : \A j \in 1..Len(w) : s[i + j] = w[j]

IsSpace(c) == c = " "

RECURSIVE TrimStart(_)
TrimStart(s) ==
  IF s # <<>> /\ IsSpace(Head(s)) THEN TrimStart(Tail(s)) ELSE s

RECURSIVE TrimEnd(_)
TrimEnd(s) ==
  IF s # <<>> /\ IsSpace(s[Len(s)]) THEN TrimEnd(SubSeq(s, 1, Len(s) - 1)) ELSE s

\* String.prototype.trim.
Trim(s) == TrimEnd(TrimStart(s))

\* The literal the transcript shows while the transcriber runs.
TranscribingText ==
  <<"T","r","a","n","s","c","r","i","b","i","n","g",".",".",".">>

\* const abortWords
abortWords ==
  { <<"B","L","A","N","K">>,
    <<"N","O"," ","I","M","A","G","E">>,
    <<"N","O"," ","S","T","I","C","K","E","R">>,
    <<"C","A","N","C","E","L">>,
    <<"A","B","O","R","T">>,
    <<"S","T","A","R","T"," ","O","V","E","R">> }

\* !text || abortWords.some((word) => text.toUpperCase().includes(word))
IsAbort(text) ==
  \/ text = <<>>
  \/ \E word \in abortWords : Includes(ToUpperCase(text), word)

\* What the transcriber may return.
Transcripts ==
  { <<>>,
    <<"a"," ","c","a","t">>,
    <<" ","C","a","n","c","e","l",".">>,
    <<"n","o"," ","i","m","a","g","e">>,
    <<"N","o"," ","S","t","i","c","k","e","r">>,
    <<"a","B","O","R","T">>,
    <<"s","t","a","r","t"," ","o","v","e","r">>,
    <<"a"," ","b","l","a","n","k","e","t">>,
    <<"n","o","i","m","a","g","e">>,
    <<"c","a","n","c","l","e">>,
    TranscribingText }

\* IsAbort of every transcript, evaluated once.
AbortsTurn == [t \in Transcripts |-> IsAbort(t)]

\* What the user may type into the text input.
TypedTexts ==
  { <<>>, <<" ">>, <<" ","c","a","t"," ">>, TranscribingText }


\* ------------------------------------------------------------------- state

VARIABLES
  \* generation mode and credential
  deviceSupportsLocal,   \* let deviceSupportsLocal
  storedKey,             \* localStorage holds API_KEY_STORAGE_KEY
  ai,                    \* let ai: TRUE when the GoogleGenAI client exists
  currentMode,           \* let currentMode: "gemini" | "local"
  localModelLoaded,      \* let localModelLoaded
  localModelLoading,     \* let localModelLoading
  cacheChecks,           \* startModelDownload calls waiting for isModelCached()
  downloads,             \* every startModelDownload run past its guard: [pc, out]
  card,                  \* the download card: classes, status text, listener
  screen,                \* "main" (mainApp shown) | "setup" (apiKeySetup shown)
  \* microphone and recorder
  recs,                  \* every MediaRecorder made so far: [state, stops]
  mediaRecorder,         \* let mediaRecorder: index into recs, 0 for null
  audioStream,           \* let audioStream: TRUE when a stream is held
  isRecorderReady,       \* let isRecorderReady
  recordingTimeout,      \* let recordingTimeout: a timer id, 0 for null
  timers,                \* pending 15 s timers: [id, rec] (rec: started with it)
  micPending,            \* pointerdown handlers waiting for getUserMedia()
  held,                  \* the pointer is down on the record button
  turns,                 \* presses and text submissions so far
  \* pipelines
  pipes,                 \* every onstop / handleTextGenerate run: [kind, pc, out]
  \* record button, transcript, text input
  btnRecording,          \* recordBtn has class "recording"
  btnLoading,            \* recordBtn has class "loading"
  btnText,               \* recordBtn.textContent
  recordBtnShown,        \* recordBtn.style.display is not "none"
  transcript,            \* transcriptDiv.textContent
  generateBtnDisabled,   \* generateBtn.disabled
  textInputDisabled,     \* textInput.disabled
  revertTimers,          \* pending 1 s timers that set "Sticker Dream"
  lastAlert,             \* the message of the last alert()
  \* sticker state
  currentImageUrl,       \* let currentImageUrl: index into genUrls, 0 for null
  genUrls,               \* every generated image URL: [kind, revoked]
  filled,                \* template cells with class "filled"
  currentPrintMode,      \* let currentPrintMode
  templateShown,         \* templateSection.style.display is "flex"
  previewShown,          \* imageDisplay.style.display is "block"
  previewSrc,            \* imageDisplay.src: index into genUrls, 0 for none
  fullpageSrc,           \* fullpageImage.src and printFullpageImage.src
  timingShown,           \* timingBadge.style.display is "flex"
  \* printing
  jobs                   \* every print started by a print button, in order

modeVars ==
  <<deviceSupportsLocal, storedKey, ai, currentMode, localModelLoaded,
    localModelLoading, cacheChecks, downloads, card, screen>>
recVars ==
  <<recs, mediaRecorder, audioStream, isRecorderReady, recordingTimeout,
    timers, micPending, held>>
pipeVars == <<pipes, turns>>
uiVars ==
  <<btnRecording, btnLoading, btnText, recordBtnShown, transcript,
    generateBtnDisabled, textInputDisabled, revertTimers, lastAlert>>
stickerVars ==
  <<currentImageUrl, genUrls, filled, currentPrintMode, templateShown,
    previewShown, previewSrc, fullpageSrc, timingShown>>

printVars == <<jobs>>

appVars == <<modeVars, recVars, pipeVars, uiVars, stickerVars, printVars>>

\* templateCells: the cells of the template grid, by index, 12 per sheet
\* (README: Avery 22877, 12 per sheet).
NumCells == 12
Cells == 0..(NumCells - 1)

\* Transcript texts that depend on the prompt keep a tag for the prompt.
TxIdle == "Press the button and imagine a sticker!"
TxPrompt == "<prompt>"
TxGenerating == "<prompt> Generating..."
TxGeneratingLocal == "<prompt> Generating locally..."
TxError == "<prompt> Error: Failed to generate image"

\* ---------------------------------------------------------- initial state

\* downloadStatus.textContent, as startModelDownload and showModelReady set it.
StatusIdle == ""
StatusStarting == "Starting download..."
StatusRestoring == "Restoring model from browser cache..."
StatusLoaded == "Model loaded successfully!"
StatusFailed == "Download failed. Tap to retry."
StatusReady == "Generate stickers without an internet connection"

\* The download card as the page has it before any download.
NewCard ==
  [status |-> StatusIdle, downloading |-> FALSE, error |-> FALSE,
   ready |-> FALSE, retryListener |-> FALSE, readyTimers |-> 0]

\* showModelReady(): the card takes the class "ready" and loses
\* "downloading"; the error class is not touched.
ShowModelReady(c) ==
  [c EXCEPT !.ready = TRUE, !.downloading = FALSE, !.status = StatusReady]

\* How far the model download that initApp's setLocalMode() started has
\* come: waiting for isModelCached(), waiting for loadModel(), or loaded
\* with the ready card shown.
LoadStages == {"cache", "load", "done"}

\* The module's initial values, with initApp() run to completion on a device
\* (supportsLocal) with or without a stored key (hasKey), the first model
\* download of a device with local support being at the given stage.
AppInitAt(supportsLocal, hasKey, stage) ==
  /\ deviceSupportsLocal = supportsLocal
  /\ storedKey = hasKey
  /\ ai = hasKey
  /\ currentMode = IF ~supportsLocal /\ hasKey THEN "gemini" ELSE "local"
  /\ localModelLoaded = (supportsLocal /\ stage = "done")
  /\ localModelLoading = (supportsLocal /\ stage = "load")
  /\ cacheChecks = IF supportsLocal /\ stage = "cache" THEN 1 ELSE 0
  /\ downloads = IF supportsLocal
                   THEN << [pc |-> stage,
                            out |-> IF stage = "done" THEN "ok" ELSE ""] >>
                   ELSE << >>
  /\ card = IF ~supportsLocal \/ stage = "cache" THEN NewCard
            ELSE IF stage = "load"
              THEN [NewCard EXCEPT !.status = StatusStarting, !.downloading = TRUE]
              ELSE ShowModelReady(NewCard)
  /\ screen = IF supportsLocal \/ hasKey THEN "main" ELSE "setup"
  /\ recs = <<>>
  /\ mediaRecorder = 0
  /\ audioStream = FALSE
  /\ isRecorderReady = FALSE
  /\ recordingTimeout = 0
  /\ timers = {}
  /\ micPending = 0
  /\ held = FALSE
  /\ turns = 0
  /\ pipes = <<>>
  /\ btnRecording = FALSE
  /\ btnLoading = FALSE
  /\ btnText = "Sticker Dream"
  /\ recordBtnShown = TRUE
  /\ transcript = TxIdle
  /\ generateBtnDisabled = FALSE
  /\ textInputDisabled = FALSE
  /\ revertTimers = 0
  /\ lastAlert = ""
  /\ currentImageUrl = 0
  /\ genUrls = <<>>
  /\ filled = {}
  /\ currentPrintMode = "fullpage"
  /\ templateShown = FALSE
  /\ previewShown = FALSE
  /\ previewSrc = 0
  /\ fullpageSrc = 0
  /\ timingShown = FALSE
  /\ jobs = <<>>

\* The same with the first model load under way (loaded FALSE) or over
\* with success (loaded TRUE).
AppInit(supportsLocal, hasKey, loaded) ==
  AppInitAt(supportsLocal, hasKey, IF loaded THEN "done" ELSE "load")


\* -------------------------------------------------- microphone and recorder

\* The record button takes pointer events: mainApp is shown and the button
\* is not hidden.
RecordBtnUsable == screen = "main" /\ recordBtnShown

NewRecorder == [state |-> "inactive", stops |-> 0]

\* What a stop() leaves of recorder r: inactive, with one more stop event due.
Stopped(rs, r) ==
  [rs EXCEPT ![r] = [state |-> "inactive", stops |-> rs[r].stops + 1]]

\* if (mediaRecorder?.state === "recording") mediaRecorder.stop();
\* The recorder looked at is the one the variable holds when the code runs.
StopCurrent(rs) ==
  IF mediaRecorder # 0 /\ rs[mediaRecorder].state = "recording"
    THEN Stopped(rs, mediaRecorder)
    ELSE rs

\* setupRecorder(): with a stream, a fresh MediaRecorder replaces the
\* variable's and isRecorderReady is set; without one, nothing changes.
\* rs and ready are the values the call finds.
SetupRecorder(rs, ready) ==
  IF audioStream
    THEN /\ recs' = Append(rs, NewRecorder)
         /\ mediaRecorder' = Len(rs) + 1
         /\ isRecorderReady' = TRUE
    ELSE /\ recs' = rs
         /\ mediaRecorder' = mediaRecorder
         /\ isRecorderReady' = ready

\* pointerdown on the record button.  Not ready: initializeMicrophone() asks
\* for the microphone and the handler waits.  Ready: the recorder starts at
\* once; start() on a recorder that is recording throws, which ends the
\* handler before it touches the button or arms a timer.
PointerDown ==
  /\ RecordBtnUsable
  /\ turns' = turns + 1
  /\ held' = TRUE
  /\ IF ~isRecorderReady \/ mediaRecorder = 0
       THEN /\ micPending' = micPending + 1
            /\ transcript' = "Requesting microphone access..."
            /\ UNCHANGED <<recs, recordingTimeout, timers, btnRecording, btnText>>
       ELSE /\ IF recs[mediaRecorder].state = "recording"
                 THEN UNCHANGED <<recs, recordingTimeout, timers, btnRecording,
                                  btnText>>
                 ELSE /\ recs' = [recs EXCEPT ![mediaRecorder].state = "recording"]
                      /\ btnRecording' = TRUE
                      /\ btnText' = "Listening..."
                      /\ timers' = timers \cup {[id |-> 2 * (turns + 1), rec |-> mediaRecorder]}
                      /\ recordingTimeout' = 2 * (turns + 1)
            /\ UNCHANGED <<micPending, transcript>>
  /\ UNCHANGED <<mediaRecorder, audioStream, isRecorderReady, pipes>>
  /\ UNCHANGED <<btnLoading, recordBtnShown, generateBtnDisabled,
                 textInputDisabled, revertTimers, lastAlert>>
  /\ UNCHANGED <<modeVars, stickerVars>>
  /\ UNCHANGED printVars

\* getUserMedia() resolves: initializeMicrophone() keeps the stream and runs
\* setupRecorder(), and the pointerdown handler goes on to start the new
\* recorder and arm its 15 s timer.  Timer ids are fresh: even for a start
\* in the pointerdown task, odd for a start after getUserMedia().
MicGranted ==
  /\ micPending > 0
  /\ micPending' = micPending - 1
  /\ UNCHANGED held
  /\ audioStream' = TRUE
  /\ recs' = Append(recs, [state |-> "recording", stops |-> 0])
  /\ mediaRecorder' = Len(recs) + 1
  /\ isRecorderReady' = TRUE
  /\ btnRecording' = TRUE
  /\ btnText' = "Listening..."
  /\ LET id == 2 * Len(recs) + 1
     IN /\ timers' = timers \cup {[id |-> id, rec |-> Len(recs) + 1]}
        /\ recordingTimeout' = id
  /\ UNCHANGED <<pipes, turns>>
  /\ UNCHANGED <<btnLoading, recordBtnShown, transcript, generateBtnDisabled,
                 textInputDisabled, revertTimers, lastAlert>>
  /\ UNCHANGED <<modeVars, stickerVars>>
  /\ UNCHANGED printVars

\* getUserMedia() rejects: the transcript says so and the handler returns.
MicDenied ==
  /\ micPending > 0
  /\ micPending' = micPending - 1
  /\ UNCHANGED held
  /\ transcript' = "Microphone access denied. Use the text input below instead, or enable microphone in settings."
  /\ UNCHANGED <<recs, mediaRecorder, audioStream, isRecorderReady,
                 recordingTimeout, timers>>
  /\ UNCHANGED <<pipes, turns>>
  /\ UNCHANGED <<btnRecording, btnLoading, btnText, recordBtnShown,
                 generateBtnDisabled, textInputDisabled, revertTimers, lastAlert>>
  /\ UNCHANGED <<modeVars, stickerVars>>
  /\ UNCHANGED printVars

\* pointerup and pointerleave on the record button run the same code: clear
\* the timer recordingTimeout names, stop the variable's recorder if it is
\* recording.
ReleaseButton ==
  /\ RecordBtnUsable
  /\ IF recordingTimeout # 0
       THEN /\ timers' = {t \in timers : t.id # recordingTimeout}
            /\ recordingTimeout' = 0
       ELSE UNCHANGED <<timers, recordingTimeout>>
  /\ recs' = StopCurrent(recs)
  /\ UNCHANGED <<mediaRecorder, audioStream, isRecorderReady, micPending>>
  /\ held' = FALSE
  /\ UNCHANGED <<pipeVars, uiVars, modeVars, stickerVars>>
  /\ UNCHANGED printVars

PointerUp == ReleaseButton

PointerLeave == ReleaseButton

\* A 15 s timer fires: it stops the recorder the variable holds now.
RecordingTimerFires ==
  \E t \in timers :
    /\ timers' = timers \ {t}
    /\ recs' = StopCurrent(recs)
    /\ UNCHANGED <<mediaRecorder, audioStream, isRecorderReady,
                   recordingTimeout, micPending, held>>
    /\ UNCHANGED <<pipeVars, uiVars, modeVars, stickerVars>>
    /\ UNCHANGED printVars


\* ------------------------------------------------------------ generateImage

AlertNotLoaded == "Local model is still downloading. Please wait for it to finish."
AlertNoKey == "Failed to generate image: API key not configured"
AlertNoImage == "Failed to generate image: Failed to generate image"
AlertBackend == "Failed to generate image: backend error"

\* A plausible slip: generateImage without its check of localModelLoaded.
GenerateImageEntryNoModelCheck(prompt) ==
  IF prompt = <<>> \/ prompt = TranscribingText THEN "noprompt"
  ELSE IF currentMode = "local" THEN "local"
  ELSE (IF ~ai THEN "nokey" ELSE "gemini")

\* generateImage(prompt) up to its first await.  "noprompt": the guard on an
\* empty or "Transcribing..." prompt returns.  "notloaded": local mode with
\* no model, an alert and a return.  "nokey": generateImageWithGemini throws
\* at once for want of a client, and the catch alerts.  "local", "gemini":
\* the backend is called and the function waits for it.
GenerateImageEntry(prompt) ==
  IF prompt = <<>> \/ prompt = TranscribingText THEN "noprompt"
  ELSE IF currentMode = "local"
    THEN (IF ~localModelLoaded THEN "notloaded" ELSE "local")
    ELSE (IF ~ai THEN "nokey" ELSE "gemini")

BackendCalled(entry) == entry \in {"local", "gemini"}

\* transcriptDiv after generateImage's entry, the prompt being shown before.
TranscriptAtEntry(entry) ==
  CASE entry = "noprompt" -> TxPrompt
    [] entry = "notloaded" -> TxPrompt
    [] entry = "nokey" -> TxError
    [] entry = "local" -> TxGeneratingLocal
    [] entry = "gemini" -> TxGenerating

AlertAtEntry(entry) ==
  CASE entry = "notloaded" -> AlertNotLoaded
    [] entry = "nokey" -> AlertNoKey
    [] OTHER -> lastAlert

\* A plausible slip: a success path that does not call setFullPageMode().
ShowGeneratedKeepsMode(backend) ==
  /\ genUrls' = Append(genUrls,
       [kind |-> IF backend = "local" THEN "blob" ELSE "data", revoked |-> 0])
  /\ currentImageUrl' = Len(genUrls) + 1
  /\ previewSrc' = Len(genUrls) + 1
  /\ previewShown' = TRUE
  /\ templateShown' = TRUE
  /\ timingShown' = TRUE
  /\ UNCHANGED <<filled, currentPrintMode, fullpageSrc>>

\* generateImage's success path: the new URL becomes current, the preview
\* and full page images show it, the template section opens in full page
\* mode and the timing badge shows.  The filled cells are not touched.
\* (The record button is hidden too: the callers set recordBtnShown.)
ShowGenerated(backend) ==
  /\ genUrls' = Append(genUrls,
       [kind |-> IF backend = "local" THEN "blob" ELSE "data", revoked |-> 0])
  /\ currentImageUrl' = Len(genUrls) + 1
  /\ previewSrc' = Len(genUrls) + 1
  /\ previewShown' = TRUE
  /\ fullpageSrc' = Len(genUrls) + 1
  /\ templateShown' = TRUE
  /\ currentPrintMode' = "fullpage"
  /\ timingShown' = TRUE
  /\ UNCHANGED filled

\* What the backend may answer: an image, no image (null), or an exception.
BackendResults == {"image", "noimage", "error"}

\* ------------------------------------------------------------ voice pipeline

\* A recorder's stop event is dispatched: mediaRecorder.onstop starts, marks
\* the recorder not ready, shows the loading state and waits for the
\* transcriber.
OnStop ==
  \E r \in 1..Len(recs) :
    /\ recs[r].stops > 0
    /\ recs' = [recs EXCEPT ![r].stops = recs[r].stops - 1]
    /\ isRecorderReady' = FALSE
    /\ btnRecording' = FALSE
    /\ btnLoading' = TRUE
    /\ btnText' = "Imagining..."
    /\ transcript' = TranscribingText
    /\ pipes' = Append(pipes, [kind |-> "voice", pc |-> "transcribing",
                               out |-> "", backend |-> "none"])
    /\ UNCHANGED <<mediaRecorder, audioStream, recordingTimeout, timers,
                   micPending, held, turns>>
    /\ UNCHANGED <<recordBtnShown, generateBtnDisabled, textInputDisabled,
                   revertTimers, lastAlert>>
    /\ UNCHANGED <<modeVars, stickerVars>>
    /\ UNCHANGED printVars

\* The transcriber resolves with text.  An empty text or one holding an
\* abort word ends the turn: "No image generated.", "Cancelled" for a second,
\* a new recorder.  Otherwise generateImage(text) runs; when it returns
\* without calling a backend the handler finishes at once (loading cleared,
\* "Sticker Dream", a new recorder), else the handler waits for the backend.
TranscribeDone(p, text) ==
  LET cancel == AbortsTurn[text]
      entry == GenerateImageEntry(text)
      waits == ~cancel /\ BackendCalled(entry)
  IN
  /\ p \in 1..Len(pipes)
  /\ pipes[p].kind = "voice"
  /\ pipes[p].pc = "transcribing"
  /\ pipes' = [pipes EXCEPT ![p] =
       [kind |-> "voice",
        pc |-> IF waits THEN "generating" ELSE "done",
        out |-> IF cancel THEN (IF text = <<>> THEN "silent" ELSE "cancelled")
                ELSE IF waits THEN "" ELSE entry,
        backend |-> IF waits THEN entry ELSE "none"]]
  /\ transcript' = IF cancel THEN "No image generated." ELSE TranscriptAtEntry(entry)
  /\ lastAlert' = IF cancel THEN lastAlert ELSE AlertAtEntry(entry)
  /\ btnLoading' = IF waits THEN btnLoading ELSE FALSE
  /\ btnText' = IF cancel THEN "Cancelled"
                ELSE IF waits THEN "Dreaming Up..." ELSE "Sticker Dream"
  /\ revertTimers' = IF cancel THEN revertTimers + 1 ELSE revertTimers
  /\ IF waits
       THEN UNCHANGED <<recs, mediaRecorder, isRecorderReady>>
       ELSE SetupRecorder(recs, isRecorderReady)
  /\ UNCHANGED <<audioStream, recordingTimeout, timers, micPending, held,
                 turns>>
  /\ UNCHANGED <<btnRecording, recordBtnShown, generateBtnDisabled,
                 textInputDisabled>>
  /\ UNCHANGED <<modeVars, stickerVars>>
  /\ UNCHANGED printVars

\* The transcriber rejects.  The await in onstop is in no try block: the
\* handler ends there and nothing after the await runs.
TranscribeFails(p) ==
  /\ p \in 1..Len(pipes)
  /\ pipes[p].kind = "voice"
  /\ pipes[p].pc = "transcribing"
  /\ pipes' = [pipes EXCEPT ![p].pc = "crashed", ![p].out = "crashed"]
  /\ UNCHANGED <<turns, recVars, uiVars, modeVars, stickerVars>>
  /\ UNCHANGED printVars

\* The 1 s timer of a cancelled turn fires.
RevertTimerFires ==
  /\ revertTimers > 0
  /\ revertTimers' = revertTimers - 1
  /\ btnText' = "Sticker Dream"
  /\ UNCHANGED <<btnRecording, btnLoading, recordBtnShown, transcript,
                 generateBtnDisabled, textInputDisabled, lastAlert>>
  /\ UNCHANGED <<recVars, pipeVars, modeVars, stickerVars>>
  /\ UNCHANGED printVars

\* ------------------------------------------------------------- text pipeline

\* handleTextGenerate(), from a click on the generate button or Enter in the
\* text input.  A blank input only takes the focus.  Otherwise the inputs
\* are disabled, the record button is hidden and generateImage(text) runs;
\* the finally block undoes that when generateImage is over.
HandleTextGenerate(typed) ==
  LET text == Trim(typed)
      entry == GenerateImageEntry(text)
      waits == BackendCalled(entry)
  IN
  /\ screen = "main"
  /\ ~generateBtnDisabled
  /\ ~textInputDisabled
  /\ IF text = <<>>
       THEN UNCHANGED <<pipeVars, uiVars>>
       ELSE /\ turns' = turns + 1
            /\ pipes' = Append(pipes,
                 [kind |-> "text",
                  pc |-> IF waits THEN "generating" ELSE "done",
                  out |-> IF waits THEN "" ELSE entry,
                  backend |-> IF waits THEN entry ELSE "none"])
            /\ generateBtnDisabled' = waits
            /\ textInputDisabled' = waits
            /\ recordBtnShown' = ~waits
            /\ btnLoading' = waits
            /\ transcript' = TranscriptAtEntry(entry)
            /\ lastAlert' = AlertAtEntry(entry)
            /\ UNCHANGED <<btnRecording, btnText, revertTimers>>
  /\ UNCHANGED <<recVars, modeVars, stickerVars>>
  /\ UNCHANGED printVars

\* ------------------------------------------------------- the backend answers

\* A plausible slip: a failure path that forgets the current image.
GenerateDoneFailureClears(p, res) ==
  /\ p \in 1..Len(pipes)
  /\ pipes[p].pc = "generating"
  /\ pipes' = [pipes EXCEPT ![p].pc = "done", ![p].out = res]
  /\ IF res = "image"
       THEN /\ ShowGenerated(pipes[p].backend)
            /\ transcript' = TxPrompt
            /\ UNCHANGED lastAlert
       ELSE /\ transcript' = TxError
            /\ lastAlert' = IF res = "noimage" THEN AlertNoImage ELSE AlertBackend
            /\ currentImageUrl' = 0
            /\ UNCHANGED <<genUrls, filled, currentPrintMode, templateShown,
                           previewShown, previewSrc, fullpageSrc, timingShown>>
  /\ btnLoading' = FALSE
  /\ IF pipes[p].kind = "voice"
       THEN /\ btnText' = "Sticker Dream"
            /\ recordBtnShown' = IF res = "image" THEN FALSE ELSE recordBtnShown
            /\ SetupRecorder(recs, isRecorderReady)
            /\ UNCHANGED <<generateBtnDisabled, textInputDisabled>>
       ELSE /\ generateBtnDisabled' = FALSE
            /\ textInputDisabled' = FALSE
            /\ recordBtnShown' = TRUE
            /\ UNCHANGED <<btnText, recs, mediaRecorder, isRecorderReady>>
  /\ UNCHANGED <<audioStream, recordingTimeout, timers, micPending, held,
                 turns>>
  /\ UNCHANGED <<btnRecording, revertTimers>>
  /\ UNCHANGED modeVars
  /\ UNCHANGED printVars

\* The backend call of pipeline p settles and generateImage resumes, then the
\* caller: onstop clears the loading state, sets "Sticker Dream" and makes a
\* new recorder; handleTextGenerate's finally enables the inputs and shows
\* the record button again.
GenerateDone(p, res) ==
  /\ p \in 1..Len(pipes)
  /\ pipes[p].pc = "generating"
  /\ pipes' = [pipes EXCEPT ![p].pc = "done", ![p].out = res]
  /\ IF res = "image"
       THEN /\ ShowGenerated(pipes[p].backend)
            /\ transcript' = TxPrompt
            /\ UNCHANGED lastAlert
       ELSE /\ transcript' = TxError
            /\ lastAlert' = IF res = "noimage" THEN AlertNoImage ELSE AlertBackend
            /\ UNCHANGED stickerVars
  /\ btnLoading' = FALSE
  /\ IF pipes[p].kind = "voice"
       THEN /\ btnText' = "Sticker Dream"
            /\ recordBtnShown' = IF res = "image" THEN FALSE ELSE recordBtnShown
            /\ SetupRecorder(recs, isRecorderReady)
            /\ UNCHANGED <<generateBtnDisabled, textInputDisabled>>
       ELSE /\ generateBtnDisabled' = FALSE
            /\ textInputDisabled' = FALSE
            /\ recordBtnShown' = TRUE
            /\ UNCHANGED <<btnText, recs, mediaRecorder, isRecorderReady>>
  /\ UNCHANGED <<audioStream, recordingTimeout, timers, micPending, held,
                 turns>>
  /\ UNCHANGED <<btnRecording, revertTimers>>
  /\ UNCHANGED modeVars
  /\ UNCHANGED printVars


\* ------------------------------------------------------------- sticker state

\* A plausible slip: toggleCell without its guard on currentImageUrl.
ToggleCellUnguarded(i) ==
  /\ screen = "main"
  /\ filled' = IF i \in filled THEN filled \ {i} ELSE filled \cup {i}
  /\ UNCHANGED <<currentImageUrl, genUrls, currentPrintMode, templateShown,
                 previewShown, previewSrc, fullpageSrc, timingShown>>
  /\ UNCHANGED <<recVars, pipeVars, uiVars, modeVars>>
  /\ UNCHANGED printVars

\* A click on template cell i: toggleCell.  Without a current image nothing
\* happens.
ToggleCell(i) ==
  /\ screen = "main"
  /\ filled' = IF currentImageUrl = 0 THEN filled
               ELSE IF i \in filled THEN filled \ {i} ELSE filled \cup {i}
  /\ UNCHANGED <<currentImageUrl, genUrls, currentPrintMode, templateShown,
                 previewShown, previewSrc, fullpageSrc, timingShown>>
  /\ UNCHANGED <<recVars, pipeVars, uiVars, modeVars>>
  /\ UNCHANGED printVars

\* fillAllBtn: every cell filled, if there is a current image.
FillAllClick ==
  /\ screen = "main"
  /\ filled' = IF currentImageUrl = 0 THEN filled ELSE Cells
  /\ UNCHANGED <<currentImageUrl, genUrls, currentPrintMode, templateShown,
                 previewShown, previewSrc, fullpageSrc, timingShown>>
  /\ UNCHANGED <<recVars, pipeVars, uiVars, modeVars>>
  /\ UNCHANGED printVars

\* clearAllBtn: no cell filled.
ClearAllClick ==
  /\ screen = "main"
  /\ filled' = {}
  /\ UNCHANGED <<currentImageUrl, genUrls, currentPrintMode, templateShown,
                 previewShown, previewSrc, fullpageSrc, timingShown>>
  /\ UNCHANGED <<recVars, pipeVars, uiVars, modeVars>>
  /\ UNCHANGED printVars

\* fullPageModeBtn: setFullPageMode().
FullPageModeClick ==
  /\ screen = "main"
  /\ currentPrintMode' = "fullpage"
  /\ fullpageSrc' = IF currentImageUrl # 0 THEN currentImageUrl ELSE fullpageSrc
  /\ UNCHANGED <<currentImageUrl, genUrls, filled, templateShown, previewShown,
                 previewSrc, timingShown>>
  /\ UNCHANGED <<recVars, pipeVars, uiVars, modeVars>>
  /\ UNCHANGED printVars

\* stickerModeBtn: setStickerMode().
StickerModeClick ==
  /\ screen = "main"
  /\ currentPrintMode' = "sticker"
  /\ UNCHANGED <<currentImageUrl, genUrls, filled, templateShown, previewShown,
                 previewSrc, fullpageSrc, timingShown>>
  /\ UNCHANGED <<recVars, pipeVars, uiVars, modeVars>>
  /\ UNCHANGED printVars

\* A plausible slip: a reset that leaves the print mode as it was.
NewStickerClickKeepsMode ==
  /\ screen = "main"
  /\ filled' = {}
  /\ fullpageSrc' = 0
  /\ templateShown' = FALSE
  /\ previewShown' = FALSE
  /\ recordBtnShown' = TRUE
  /\ transcript' = TxIdle
  /\ currentImageUrl' = 0
  /\ timingShown' = FALSE
  /\ UNCHANGED <<genUrls, previewSrc, currentPrintMode>>
  /\ UNCHANGED <<btnRecording, btnLoading, btnText, generateBtnDisabled,
                 textInputDisabled, revertTimers, lastAlert>>
  /\ UNCHANGED <<recVars, pipeVars, modeVars>>
  /\ UNCHANGED printVars

\* newStickerBtn: cells cleared, template and preview hidden, record button
\* shown, no current image, full page mode.  No URL is revoked.
NewStickerClick ==
  /\ screen = "main"
  /\ filled' = {}
  /\ fullpageSrc' = 0
  /\ templateShown' = FALSE
  /\ previewShown' = FALSE
  /\ recordBtnShown' = TRUE
  /\ transcript' = TxIdle
  /\ currentImageUrl' = 0
  /\ timingShown' = FALSE
  /\ currentPrintMode' = "fullpage"
  /\ UNCHANGED <<genUrls, previewSrc>>
  /\ UNCHANGED <<btnRecording, btnLoading, btnText, generateBtnDisabled,
                 textInputDisabled, revertTimers, lastAlert>>
  /\ UNCHANGED <<recVars, pipeVars, modeVars>>
  /\ UNCHANGED printVars

\* ------------------------------------------------------- credential and mode

\* The startModelDownload runs that are followed.
MaxDownloads == 2

\* startModelDownload() up to its first await: nothing when the model is
\* loaded or loading, else the call waits for isModelCached().
StartModelDownload ==
  IF localModelLoaded \/ localModelLoading
    THEN UNCHANGED <<cacheChecks, downloads>>
    ELSE /\ cacheChecks' = cacheChecks + 1
         /\ downloads' = Append(downloads, [pc |-> "cache", out |-> ""])

\* setLocalMode(): nothing without local support; else local mode, the
\* ready card when the model is loaded, and a model download unless the
\* model is loading.
SetLocalMode ==
  IF ~deviceSupportsLocal
    THEN UNCHANGED <<currentMode, cacheChecks, downloads, card>>
    ELSE /\ currentMode' = "local"
         /\ IF localModelLoaded
              THEN /\ card' = ShowModelReady(card)
                   /\ UNCHANGED <<cacheChecks, downloads>>
              ELSE IF ~localModelLoading
                THEN /\ StartModelDownload
                     /\ UNCHANGED card
                ELSE UNCHANGED <<cacheChecks, downloads, card>>

\* setGeminiMode(): nothing without a stored key; else Gemini mode.
SetGeminiMode ==
  IF ~storedKey
    THEN UNCHANGED currentMode
    ELSE currentMode' = "gemini"

\* geminiModeBtn, which updateGeminiToggleState disables while no key is
\* stored.
GeminiModeClick ==
  /\ screen = "main"
  /\ storedKey
  /\ SetGeminiMode
  /\ UNCHANGED <<deviceSupportsLocal, storedKey, ai, localModelLoaded,
                 localModelLoading, cacheChecks, downloads, card, screen>>
  /\ UNCHANGED <<recVars, pipeVars, uiVars, stickerVars>>
  /\ UNCHANGED printVars

\* localModeBtn, which checkDeviceCapabilities disables without local
\* support.
LocalModeClick ==
  /\ screen = "main"
  /\ deviceSupportsLocal
  /\ SetLocalMode
  /\ UNCHANGED <<deviceSupportsLocal, storedKey, ai, localModelLoaded,
                 localModelLoading, screen>>
  /\ UNCHANGED <<recVars, pipeVars, uiVars, stickerVars>>
  /\ UNCHANGED printVars

\* A plausible slip: a settings handler that clears the key and leaves the
\* mode as it is.
SettingsClickKeepsMode(confirmed) ==
  /\ screen = "main"
  /\ IF storedKey
       THEN IF confirmed
              THEN /\ storedKey' = FALSE
                   /\ ai' = FALSE
                   /\ UNCHANGED <<currentMode, cacheChecks, downloads, card, screen>>
              ELSE UNCHANGED <<storedKey, ai, currentMode, cacheChecks, downloads, card,
                                screen>>
       ELSE /\ screen' = "setup"
            /\ UNCHANGED <<storedKey, ai, currentMode, cacheChecks, downloads, card>>
  /\ UNCHANGED <<deviceSupportsLocal, localModelLoaded, localModelLoading>>
  /\ UNCHANGED <<recVars, pipeVars, uiVars, stickerVars>>
  /\ UNCHANGED printVars

\* settingsBtn.  With a key and the confirm accepted: the key and the client
\* go; from Gemini mode the app moves to local mode, or to the setup screen
\* when the device has no local mode.  Without a key: the setup screen.
SettingsClick(confirmed) ==
  /\ screen = "main"
  /\ IF storedKey
       THEN IF confirmed
              THEN /\ storedKey' = FALSE
                   /\ ai' = FALSE
                   /\ IF currentMode = "gemini"
                        THEN /\ SetLocalMode
                             /\ screen' = IF deviceSupportsLocal THEN screen ELSE "setup"
                        ELSE UNCHANGED <<currentMode, cacheChecks, downloads, card, screen>>
              ELSE UNCHANGED <<storedKey, ai, currentMode, cacheChecks, downloads, card,
                                screen>>
       ELSE /\ screen' = "setup"
            /\ UNCHANGED <<storedKey, ai, currentMode, cacheChecks, downloads, card>>
  /\ UNCHANGED <<deviceSupportsLocal, localModelLoaded, localModelLoading>>
  /\ UNCHANGED <<recVars, pipeVars, uiVars, stickerVars>>
  /\ UNCHANGED printVars

\* A plausible slip: a save handler that does not trim the input.
SaveApiKeyClickNoTrim(typed) ==
  /\ screen = "setup"
  /\ IF typed = <<>>
       THEN /\ lastAlert' = "Please enter an API key"
            /\ UNCHANGED <<storedKey, ai, screen, recordBtnShown, currentMode>>
       ELSE /\ storedKey' = TRUE
            /\ ai' = TRUE
            /\ screen' = "main"
            /\ recordBtnShown' = TRUE
            /\ currentMode' = IF ~deviceSupportsLocal THEN "gemini" ELSE currentMode
            /\ UNCHANGED lastAlert
  /\ UNCHANGED <<deviceSupportsLocal, localModelLoaded, localModelLoading,
                 cacheChecks, downloads, card>>
  /\ UNCHANGED <<btnRecording, btnLoading, btnText, transcript,
                 generateBtnDisabled, textInputDisabled, revertTimers>>
  /\ UNCHANGED <<recVars, pipeVars, stickerVars>>
  /\ UNCHANGED printVars

\* What the user may type into the API key input.
TypedKeys == { <<>>, <<" ">>, <<" ","k"," ">> }

\* saveApiKeyBtn.  A blank key: an alert.  Otherwise the key is stored, the
\* client made, the main app shown (showMainApp shows the record button), and
\* a device without local mode moves to Gemini mode.
SaveApiKeyClick(typed) ==
  /\ screen = "setup"
  /\ IF Trim(typed) = <<>>
       THEN /\ lastAlert' = "Please enter an API key"
            /\ UNCHANGED <<storedKey, ai, screen, recordBtnShown, currentMode>>
       ELSE /\ storedKey' = TRUE
            /\ ai' = TRUE
            /\ screen' = "main"
            /\ recordBtnShown' = TRUE
            /\ currentMode' = IF ~deviceSupportsLocal THEN "gemini" ELSE currentMode
            /\ UNCHANGED lastAlert
  /\ UNCHANGED <<deviceSupportsLocal, localModelLoaded, localModelLoading,
                 cacheChecks, downloads, card>>
  /\ UNCHANGED <<btnRecording, btnLoading, btnText, transcript,
                 generateBtnDisabled, textInputDisabled, revertTimers>>
  /\ UNCHANGED <<recVars, pipeVars, stickerVars>>
  /\ UNCHANGED printVars

\* skipApiKeyLink, which showApiKeySetup shows only with local support:
\* showMainApp() and setLocalMode().
SkipApiKeyClick ==
  /\ screen = "setup"
  /\ deviceSupportsLocal
  /\ screen' = "main"
  /\ recordBtnShown' = TRUE
  /\ SetLocalMode
  /\ UNCHANGED <<deviceSupportsLocal, storedKey, ai, localModelLoaded,
                 localModelLoading>>
  /\ UNCHANGED <<btnRecording, btnLoading, btnText, transcript,
                 generateBtnDisabled, textInputDisabled, revertTimers, lastAlert>>
  /\ UNCHANGED <<recVars, pipeVars, stickerVars>>
  /\ UNCHANGED printVars

\* ------------------------------------------------------ the model download

AlertLoadFailed == "Failed to load local model: <message>"

\* A plausible slip: loadLocalModel without its guard on localModelLoading.
LoadLocalModelEntryUnguarded ==
  IF localModelLoaded THEN "already" ELSE "detect"

\* loadLocalModel() up to its first await.  "already": the model is loaded
\* and the function returns true.  "busy": a load is under way and the
\* function returns false.  "detect": localModelLoading is set and the
\* function waits for detectCapabilities().
LoadLocalModelEntry ==
  IF localModelLoaded THEN "already"
  ELSE IF localModelLoading THEN "busy" ELSE "detect"

\* startModelDownload() after loadLocalModel() returned true: the success
\* message, and a timer that will call showModelReady().
SuccessCard(c) ==
  [c EXCEPT !.downloading = FALSE, !.status = StatusLoaded,
            !.readyTimers = c.readyTimers + 1]

\* startModelDownload() after loadLocalModel() returned false: the failure
\* message, the error class, and retryDownload as a once-listener of the
\* card's click.
FailedCard(c) ==
  [c EXCEPT !.downloading = FALSE, !.status = StatusFailed, !.error = TRUE,
            !.retryListener = TRUE]

\* isModelCached() settles for download d: the card shows the download and
\* loadLocalModel() is called.  When it returns at once, startModelDownload
\* finishes in the same task.
CacheCheckDone(d, cached) ==
  LET entry == LoadLocalModelEntry
      shown == [card EXCEPT !.downloading = TRUE,
                            !.status = IF cached THEN StatusRestoring
                                       ELSE StatusStarting]
  IN
  /\ d \in 1..Len(downloads)
  /\ downloads[d].pc = "cache"
  /\ cacheChecks' = cacheChecks - 1
  /\ downloads' = [downloads EXCEPT ![d] =
       IF entry = "detect" THEN [pc |-> "detect", out |-> ""]
                           ELSE [pc |-> "done", out |-> entry]]
  /\ localModelLoading' = IF entry = "detect" THEN TRUE ELSE localModelLoading
  /\ card' = CASE entry = "detect" -> shown
               [] entry = "already" -> SuccessCard(shown)
               [] entry = "busy" -> FailedCard(shown)
  /\ UNCHANGED <<deviceSupportsLocal, storedKey, ai, currentMode,
                 localModelLoaded, screen>>
  /\ UNCHANGED <<recVars, pipeVars, uiVars, stickerVars>>
  /\ UNCHANGED printVars

\* detectCapabilities() settles inside loadLocalModel for download d.
\* Resolved: loadModel() is called.  Rejected: the catch alerts, the finally
\* clears localModelLoading, and startModelDownload shows the failure.
DetectDone(d, ok) ==
  /\ d \in 1..Len(downloads)
  /\ downloads[d].pc = "detect"
  /\ IF ok
       THEN /\ downloads' = [downloads EXCEPT ![d].pc = "load"]
            /\ UNCHANGED <<localModelLoading, card, lastAlert>>
       ELSE /\ downloads' = [downloads EXCEPT ![d] = [pc |-> "done", out |-> "threw"]]
            /\ localModelLoading' = FALSE
            /\ lastAlert' = AlertLoadFailed
            /\ card' = FailedCard(card)
  /\ UNCHANGED <<deviceSupportsLocal, storedKey, ai, currentMode,
                 localModelLoaded, cacheChecks, screen>>
  /\ UNCHANGED <<btnRecording, btnLoading, btnText, recordBtnShown, transcript,
                 generateBtnDisabled, textInputDisabled, revertTimers>>
  /\ UNCHANGED <<recVars, pipeVars, stickerVars>>
  /\ UNCHANGED printVars

\* What loadModel() may do: resolve ok, resolve not ok, or reject.
LoadModelResults == {"ok", "notok", "threw"}

\* loadModel() settles for download d.  Ok: localModelLoaded is set.  Not ok
\* or rejected: an alert.  The finally clears localModelLoading, and
\* startModelDownload shows the success or the failure.
LoadModelDone(d, res) ==
  /\ d \in 1..Len(downloads)
  /\ downloads[d].pc = "load"
  /\ downloads' = [downloads EXCEPT ![d] = [pc |-> "done", out |-> res]]
  /\ localModelLoading' = FALSE
  /\ IF res = "ok"
       THEN /\ localModelLoaded' = TRUE
            /\ card' = SuccessCard(card)
            /\ UNCHANGED lastAlert
       ELSE /\ lastAlert' = AlertLoadFailed
            /\ card' = FailedCard(card)
            /\ UNCHANGED localModelLoaded
  /\ UNCHANGED <<deviceSupportsLocal, storedKey, ai, currentMode, cacheChecks,
                 screen>>
  /\ UNCHANGED <<btnRecording, btnLoading, btnText, recordBtnShown, transcript,
                 generateBtnDisabled, textInputDisabled, revertTimers>>
  /\ UNCHANGED <<recVars, pipeVars, stickerVars>>
  /\ UNCHANGED printVars

\* The timer of a successful download fires: showModelReady().
ReadyTimerFires ==
  /\ card.readyTimers > 0
  /\ card' = ShowModelReady([card EXCEPT !.readyTimers = card.readyTimers - 1])
  /\ UNCHANGED <<deviceSupportsLocal, storedKey, ai, currentMode,
                 localModelLoaded, localModelLoading, cacheChecks, downloads,
                 screen>>
  /\ UNCHANGED <<recVars, pipeVars, uiVars, stickerVars>>
  /\ UNCHANGED printVars

\* A click on the download card while retryDownload listens: the listener
\* goes (once), the error class goes, and startModelDownload() runs.
RetryDownload ==
  /\ screen = "main"
  /\ card.retryListener
  /\ card' = [card EXCEPT !.error = FALSE, !.retryListener = FALSE]
  /\ StartModelDownload
  /\ UNCHANGED <<deviceSupportsLocal, storedKey, ai, currentMode,
                 localModelLoaded, localModelLoading, screen>>
  /\ UNCHANGED <<recVars, pipeVars, uiVars, stickerVars>>
  /\ UNCHANGED printVars

\* ------------------------------------------------- the voice and text turns

vars == appVars

\* The turns a user can take on a device whose mode is settled: local mode
\* (model loading, or loaded), or Gemini mode with a key on a device
\* without local support.
Init ==
  \E supportsLocal \in BOOLEAN, loaded \in BOOLEAN :
    /\ loaded => supportsLocal
    /\ AppInit(supportsLocal, ~supportsLocal, loaded)

Next ==
  \/ (turns < MaxTurns /\ PointerDown)
  \/ MicGranted
  \/ MicDenied
  \/ PointerUp
  \/ PointerLeave
  \/ RecordingTimerFires
  \/ OnStop
  \/ \E p \in 1..MaxTurns, text \in Transcripts : TranscribeDone(p, text)
  \/ \E p \in 1..MaxTurns : TranscribeFails(p)
  \/ RevertTimerFires
  \/ (turns < MaxTurns /\ \E typed \in TypedTexts : HandleTextGenerate(typed))
  \/ \E p \in 1..MaxTurns, res \in BackendResults : GenerateDone(p, res)
  \/ NewStickerClick

Spec == Init /\ [][Next]_vars

\* ------------------------------------------------ properties of the turns

InFlight(p) == pipes[p].pc \in {"transcribing", "generating"}

\* The six cancel keywords, as the documentation lists them.
CancelKeywords ==
  { <<"B","L","A","N","K">>,
    <<"N","O"," ","I","M","A","G","E">>,
    <<"N","O"," ","S","T","I","C","K","E","R">>,
    <<"C","A","N","C","E","L">>,
    <<"A","B","O","R","T">>,
    <<"S","T","A","R","T"," ","O","V","E","R">> }

\* Characters a and b are the same up to letter case.
SameLetter(a, b) ==
  \/ a = b
  \/ \E k \in 1..Len(LowerLetters) :
       {a, b} = {LowerLetters[k], UpperLetters[k]}

\* Text t holds one of the cancel keywords, in any letter case, as a
\* substring.
SaysCancelKeyword(t) ==
  \E w \in CancelKeywords : \E i \in 1..Len(t) :
    /\ i + Len(w) - 1 <= Len(t)
    /\ \A j \in 1..Len(w) : SameLetter(t[i + j - 1], w[j])

\* The transcripts that hold a cancel keyword.
CancelTranscripts == {t \in Transcripts : SaysCancelKeyword(t)}

\* The state a cancelled voice turn p leaves: no generateImage call (no
\* backend call, no alert, no image), "No image generated.", the loading
\* class gone, "Cancelled" with its 1 s timer due, and a fresh idle recorder
\* made by setupRecorder.
CancelledTurnPost(p) ==
  /\ pipes'[p] = [kind |-> "voice", pc |-> "done", out |-> "cancelled",
                  backend |-> "none"]
  /\ \A q \in 1..Len(pipes) : q # p => pipes'[q] = pipes[q]
  /\ UNCHANGED <<stickerVars, lastAlert>>
  /\ transcript' = "No image generated."
  /\ ~btnLoading'
  /\ btnText' = "Cancelled"
  /\ revertTimers' = revertTimers + 1
  /\ isRecorderReady'
  /\ Len(recs') = Len(recs) + 1
  /\ mediaRecorder' = Len(recs')
  /\ recs'[mediaRecorder'].state = "inactive"

\* C1: a voice turn whose transcript holds a cancel keyword (any case, as a
\* substring) calls neither generateImage nor a backend, shows "No image
\* generated.", clears the loading state and re-arms the recorder; the
\* button reads "Cancelled" only while the timer that sets "Sticker Dream"
\* is due, and that timer sets it.
C1_CancelKeywordStopsTurn ==
  /\ [][\A p \in 1..MaxTurns, t \in CancelTranscripts :
          TranscribeDone(p, t) => CancelledTurnPost(p)]_vars
  /\ [][btnText' = "Cancelled" => revertTimers' > 0]_vars
  /\ [][revertTimers' < revertTimers => btnText' = "Sticker Dream"]_vars

\* A cancelled turn is over and the button is back to idle.
C1_Witness ==
  \E p \in 1..Len(pipes) :
    /\ pipes[p].out = "cancelled"
    /\ transcript = "No image generated."
    /\ btnText = "Sticker Dream"
    /\ revertTimers = 0
    /\ ~btnLoading
    /\ isRecorderReady
    /\ recs[mediaRecorder].state = "inactive"

\* C7: every recorder that is recording is the one the 15 s timer armed at
\* its start will stop: that timer is pending and mediaRecorder still names
\* the recorder.
C7_RecordingHasCutoff ==
  \A r \in 1..Len(recs) :
    recs[r].state = "recording" =>
      /\ mediaRecorder = r
      /\ \E t \in timers : t.rec = r

\* C8: at most one pipeline (a voice turn from its transcription on, or a
\* text generation) is in flight at a time.
C8_OnePipelineInFlight ==
  Cardinality({p \in 1..Len(pipes) : InFlight(p)}) <= 1

FailedTurn(p) ==
  pipes[p].out \in {"crashed", "notloaded", "nokey", "noimage", "error"}

\* Nothing is running or due: no pipeline, no recording, no stop event, no
\* timer, no microphone request.
Quiescent ==
  /\ \A p \in 1..Len(pipes) : ~InFlight(p)
  /\ \A r \in 1..Len(recs) : recs[r].state = "inactive" /\ recs[r].stops = 0
  /\ timers = {}
  /\ revertTimers = 0
  /\ micPending = 0

\* The interactive idle state: no loading class, the idle button text, the
\* inputs enabled, and a ready recorder once the microphone has been set up.
IdleUi ==
  /\ ~btnLoading
  /\ btnText = "Sticker Dream"
  /\ ~generateBtnDisabled
  /\ ~textInputDisabled
  /\ audioStream => isRecorderReady

\* C9: after a failed turn, once nothing is running or due any more, the UI
\* is in its interactive idle state.
C9_IdleAfterFailure ==
  ((\E p \in 1..Len(pipes) : FailedTurn(p)) /\ Quiescent) => IdleUi


\* ------------------------------------------------------- the sticker sheet

\* Cells the user clicks one by one: cells 0..ClickedCells-1.  Fill-all and
\* clear-all act on all 12.
ClickedCells == 4

StickerNext ==
  \/ (turns < MaxTurns /\ \E typed \in TypedTexts : HandleTextGenerate(typed))
  \/ \E p \in 1..MaxTurns, res \in BackendResults : GenerateDone(p, res)
  \/ \E i \in 0..(ClickedCells - 1) : ToggleCell(i)
  \/ FillAllClick
  \/ ClearAllClick
  \/ FullPageModeClick
  \/ StickerModeClick
  \/ NewStickerClick

SpecSticker == Init /\ [][StickerNext]_vars

\* C2: every generated blob URL that is no longer current has been revoked
\* exactly once, and the current one has not been revoked.
C2_SupersededUrlReleasedOnce ==
  \A u \in 1..Len(genUrls) :
    genUrls[u].kind = "blob" =>
      genUrls[u].revoked = (IF u = currentImageUrl THEN 0 ELSE 1)

\* C3: a cell is marked filled only while there is a current image.
C3_FilledNeedsImage == filled # {} => currentImageUrl # 0

\* Some but not all cells are filled under the second image generated.
C3_Witness ==
  /\ filled # {}
  /\ filled # Cells
  /\ currentImageUrl = 2

\* C4: a step that makes a new image current leaves no cell filled.
C4_NewImageClearsCells ==
  [][(currentImageUrl' # currentImageUrl /\ currentImageUrl' # 0)
       => filled' = {}]_vars


\* ---------------------------------------------------------------- printing

\* A print job is one click on a print button that got past the button's
\* own checks.  Its fields:
\*   mode      "sheet" | "fullpage"
\*   imageUrl  the generated image handed over at the click
\*   cells     the filledCells array collected at the click
\*   img       width and height of the decoded source image, <<0, 0>> before
\*   pc        where the job stands (see the actions)
\*   drawn     the ctx.drawImage calls made on the canvas
\*   blob      the URL made by URL.createObjectURL: the job's index, 0 for none
\*   revoked   URL.revokeObjectURL calls on that URL
\*   iframe, overlay, style   "none" | "attached" | "removed"
\*   frameSrc, overlaySrc     the URL the iframe's / the overlay's img shows
\*   via       why the overlay was entered
\*   listener  the afterprint listener is registered on window
\*   framePrints, windowPrints   calls of print() on the iframe / the window
\*   dialog    the print dialog of the job: "none" | "open" | "closed"
\*   doPrintTimers, frameTimers, cleanupTimers, revokeTimers   pending timers
\*   (100 ms doPrint, 2000 ms iframe removal, 500 ms cleanup, 5000 ms revoke)
NewJob(mode, imageUrl, filledCells, pc) ==
  [mode |-> mode, imageUrl |-> imageUrl, cells |-> filledCells, pc |-> pc,
   img |-> <<0, 0>>, drawn |-> {}, blob |-> 0, revoked |-> 0,
   iframe |-> "none", overlay |-> "none", style |-> "none",
   frameSrc |-> 0, overlaySrc |-> 0, via |-> "none", listener |-> FALSE,
   framePrints |-> 0, windowPrints |-> 0, dialog |-> "none",
   doPrintTimers |-> 0, frameTimers |-> 0, cleanupTimers |-> 0,
   revokeTimers |-> 0]

AlertNoImageToPrint == "No image to print"
AlertFillACell == "Please fill at least one cell before printing."
AlertPrintFailed == "Failed to prepare print. Please try again."

\* A plausible slip: a failure that is logged and not shown.
PrintAlertSilent(msg) == UNCHANGED uiVars

\* alert(msg) from a print function: nothing else on the page changes.
PrintAlert(msg) ==
  /\ lastAlert' = msg
  /\ UNCHANGED <<btnRecording, btnLoading, btnText, recordBtnShown, transcript,
                 generateBtnDisabled, textInputDisabled, revertTimers>>

\* Lengths on the canvas are in tenths of a pixel, DPI pixels to the inch.
DPI == 150

\* A plausible slip: a horizontal pitch of 3 inches.
hPitchThreeInches == 30 * DPI

pageWidth == 85 * DPI

pageHeight == 110 * DPI

topMargin == (618 * DPI) \div 100

leftMargin == (618 * DPI) \div 100

hPitch == (2630 * DPI) \div 100

vPitch == (2590 * DPI) \div 100

labelSize == 20 * DPI

\* A plausible slip: rows counted as if the sheet had four columns.
CellRowOfFour(cellIndex) == cellIndex \div 4

\* const col = cellIndex % 3; const row = Math.floor(cellIndex / 3);
CellCol(cellIndex) == cellIndex % 3

CellRow(cellIndex) == cellIndex \div 3

\* The drawImage call for one cell of filledCells.
SheetDraw(cellIndex) ==
  [cell |-> cellIndex,
   col |-> CellCol(cellIndex),
   row |-> CellRow(cellIndex),
   x |-> leftMargin + CellCol(cellIndex) * hPitch,
   y |-> topMargin + CellRow(cellIndex) * vPitch,
   w |-> labelSize,
   h |-> labelSize]

\* A plausible slip: printStickerSheetReliable without its length check.
SheetEntryUnchecked(filledCells) == "load"

\* printStickerSheetReliable's first step: no cells, an alert and a return;
\* else createStickerSheetCanvas runs up to its await of loadImage.
SheetEntry(filledCells) == IF filledCells = {} THEN "refused" ELSE "load"

\* printTemplateBtn.  Without a current image: an alert.  Otherwise the
\* filled cells are collected and printStickerSheetReliable is called.
PrintTemplateClick ==
  /\ screen = "main"
  /\ IF currentImageUrl = 0
       THEN /\ PrintAlert(AlertNoImageToPrint)
            /\ UNCHANGED jobs
       ELSE /\ jobs' = Append(jobs,
                 NewJob("sheet", currentImageUrl, filled, SheetEntry(filled)))
            /\ IF SheetEntry(filled) = "refused"
                 THEN PrintAlert(AlertFillACell)
                 ELSE UNCHANGED uiVars
  /\ UNCHANGED <<modeVars, recVars, pipeVars, stickerVars>>

\* printFullPageBtn.  Without a current image: an alert.  Otherwise
\* printFullPageReliable runs up to imageToCanvasBlob's await of loadImage.
PrintFullPageClick ==
  /\ screen = "main"
  /\ IF currentImageUrl = 0
       THEN /\ PrintAlert(AlertNoImageToPrint)
            /\ UNCHANGED jobs
       ELSE /\ jobs' = Append(jobs, NewJob("fullpage", currentImageUrl, {}, "load"))
            /\ UNCHANGED uiVars
  /\ UNCHANGED <<modeVars, recVars, pipeVars, stickerVars>>

\* Widths and heights a decoded source image may have.  Both backends are
\* asked for square images; the print functions take what they are given.
ImageSizes ==
  { <<1, 1>>, <<512, 512>>, <<640, 480>>, <<480, 640>>, <<17, 22>>,
    <<22, 17>>, <<510, 660>>, <<4000, 1>>, <<1, 4000>> }

\* The square image the backends are asked for.
SquareSize == <<512, 512>>

\* printFullPageReliable's canvas: letter size at 150 DPI, in pixels.
FullPageWidth == 1275
FullPageHeight == 1650

\* A plausible slip: the image drawn over the whole canvas, whatever its
\* shape.
DrawRectStretched(imgW, imgH, width, height, fit) ==
  [den |-> 1, x |-> 0, y |-> 0, w |-> width, h |-> height]

\* imageToCanvasBlob's offsetX, offsetY, drawWidth, drawHeight for an image
\* of imgW by imgH on a canvas of width by height.  The quotients are kept
\* exact: x, y, w and h count den-ths of a pixel.  imgRatio > canvasRatio
\* is imgW * height > width * imgH.  A fit other than 'contain' leaves the
\* initial values: the whole canvas.
DrawRect(imgW, imgH, width, height, fit) ==
  IF fit = "contain"
    THEN IF imgW * height > width * imgH
           THEN [den |-> 2 * imgW, x |-> 0, y |-> height * imgW - width * imgH,
                 w |-> width * 2 * imgW, h |-> 2 * width * imgH]
           ELSE [den |-> 2 * imgH, x |-> width * imgH - height * imgW, y |-> 0,
                 w |-> 2 * height * imgW, h |-> height * 2 * imgH]
    ELSE [den |-> 1, x |-> 0, y |-> 0, w |-> width, h |-> height]

\* imageToCanvasBlob(imageUrl, 1275, 1650, 'contain') once the image is
\* there: a canvas of that size, filled white, and one drawImage.
PageDraw(size) ==
  [cell |-> -1, canvasWidth |-> FullPageWidth, canvasHeight |-> FullPageHeight,
   background |-> "white",
   rect |-> DrawRect(size[1], size[2], FullPageWidth, FullPageHeight, "contain")]

\* loadImage settles.  Loaded, with an image of the given size: the canvas
\* is drawn (one drawImage per cell of filledCells on a sheet, one for the
\* page otherwise) and toBlob is asked for.  Error: the promise rejects and
\* the caller's catch alerts.
LoadImageDone(j, ok, size) ==
  /\ j \in 1..Len(jobs)
  /\ jobs[j].pc = "load"
  /\ IF ok
       THEN /\ jobs' = [jobs EXCEPT ![j].pc = "toblob", ![j].img = size,
                 ![j].drawn = IF jobs[j].mode = "sheet"
                                THEN {SheetDraw(c) : c \in jobs[j].cells}
                                ELSE {PageDraw(size)}]
            /\ UNCHANGED uiVars
       ELSE /\ jobs' = [jobs EXCEPT ![j].pc = "failed"]
            /\ PrintAlert(AlertPrintFailed)
  /\ UNCHANGED <<modeVars, recVars, pipeVars, stickerVars>>


\* A plausible slip: a failed iframe attempt that removes the iframe and
\* stops there.
DropAfterFrameFailure(job, why) ==
  [job EXCEPT !.pc = "overlay", !.iframe = "removed", !.via = why]

\* A plausible slip: an overlay that calls window.print() as it is shown.
EnterOverlayAutoPrint(job, why) ==
  [job EXCEPT !.pc = "overlay", !.iframe = "removed", !.via = why,
              !.overlay = "attached", !.style = "attached",
              !.overlaySrc = job.blob, !.listener = TRUE,
              !.windowPrints = job.windowPrints + 1, !.dialog = "open"]

\* The iframe attempt of printViaIframe fails for the reason why: the iframe
\* is removed and printViaOverlay(imageBlobUrl) appends the style and the
\* overlay, whose img shows the URL, and registers the afterprint listener.
EnterOverlay(job, why) ==
  [job EXCEPT !.pc = "overlay", !.iframe = "removed", !.via = why,
              !.overlay = "attached", !.style = "attached",
              !.overlaySrc = job.blob, !.listener = TRUE]

\* canvas.toBlob calls back.  No blob: the promise rejects and the caller's
\* catch alerts.  A blob: createObjectURL makes the URL and printViaIframe
\* runs with it.  The iframe is appended; without access to its document
\* (doc FALSE) the overlay takes over; else the document is written and,
\* the img being complete or not, doPrint is timed or the load is awaited.
ToBlobDone(j, ok, doc, complete) ==
  /\ j \in 1..Len(jobs)
  /\ jobs[j].pc = "toblob"
  /\ IF ~ok
       THEN /\ jobs' = [jobs EXCEPT ![j].pc = "failed"]
            /\ PrintAlert(AlertPrintFailed)
       ELSE /\ LET made == [jobs[j] EXCEPT !.blob = j, !.iframe = "attached"]
               IN jobs' = [jobs EXCEPT ![j] =
                    IF ~doc THEN EnterOverlay(made, "nodoc")
                    ELSE IF complete
                      THEN [made EXCEPT !.pc = "printwait", !.frameSrc = j,
                                        !.doPrintTimers = 1]
                      ELSE [made EXCEPT !.pc = "frameload", !.frameSrc = j]]
            /\ UNCHANGED uiVars
  /\ UNCHANGED <<modeVars, recVars, pipeVars, stickerVars>>

\* iframeImg.onload: doPrint is timed.
FrameImgLoad(j) ==
  /\ j \in 1..Len(jobs)
  /\ jobs[j].pc = "frameload"
  /\ jobs' = [jobs EXCEPT ![j].pc = "printwait", ![j].doPrintTimers = 1]
  /\ UNCHANGED <<modeVars, recVars, pipeVars, uiVars, stickerVars>>

\* iframeImg.onerror: the iframe is removed and the overlay takes over.
FrameImgError(j) ==
  /\ j \in 1..Len(jobs)
  /\ jobs[j].pc = "frameload"
  /\ jobs' = [jobs EXCEPT ![j] = EnterOverlay(jobs[j], "imgerror")]
  /\ UNCHANGED <<modeVars, recVars, pipeVars, uiVars, stickerVars>>

\* What iframe.contentWindow.print() may do: throw, return when the dialog
\* has been closed, or return with the dialog still open.
FramePrintOutcomes == {"threw", "closed", "open"}

\* A plausible slip: doPrint on an interval, not a timeout: it runs again.
DoPrintRepeats(j, outcome) ==
  /\ j \in 1..Len(jobs)
  /\ jobs[j].doPrintTimers > 0
  /\ jobs[j].framePrints < 2
  /\ jobs' = [jobs EXCEPT ![j].pc = "frameprinted",
                          ![j].framePrints = jobs[j].framePrints + 1,
                          ![j].dialog = IF outcome = "threw" THEN "closed" ELSE outcome,
                          ![j].frameTimers = 1]
  /\ UNCHANGED <<modeVars, recVars, pipeVars, uiVars, stickerVars>>

\* doPrint, 100 ms after the image is there.  print() throws: the catch
\* removes the iframe and the overlay takes over.  Else cleanupIframe()
\* arms the 2000 ms timer.
DoPrint(j, outcome) ==
  /\ j \in 1..Len(jobs)
  /\ jobs[j].doPrintTimers > 0
  /\ jobs' = [jobs EXCEPT ![j] =
       IF outcome = "threw"
         THEN EnterOverlay([jobs[j] EXCEPT !.doPrintTimers = 0], "printthrew")
         ELSE [jobs[j] EXCEPT !.doPrintTimers = 0, !.pc = "frameprinted",
                              !.framePrints = jobs[j].framePrints + 1,
                              !.dialog = outcome, !.frameTimers = 1]]
  /\ UNCHANGED <<modeVars, recVars, pipeVars, uiVars, stickerVars>>

\* The user closes the print dialog the iframe opened.
FrameDialogCloses(j) ==
  /\ j \in 1..Len(jobs)
  /\ jobs[j].pc \in {"frameprinted", "framegone", "done"}
  /\ jobs[j].dialog = "open"
  /\ jobs' = [jobs EXCEPT ![j].dialog = "closed"]
  /\ UNCHANGED <<modeVars, recVars, pipeVars, uiVars, stickerVars>>

\* cleanupIframe's 2000 ms timer: the iframe is removed and the 5000 ms
\* revoke timer armed.
CleanupIframeTimer(j) ==
  /\ j \in 1..Len(jobs)
  /\ jobs[j].frameTimers > 0
  /\ jobs' = [jobs EXCEPT ![j].frameTimers = 0, ![j].pc = "framegone",
                          ![j].iframe = "removed",
                          ![j].revokeTimers = jobs[j].revokeTimers + 1]
  /\ UNCHANGED <<modeVars, recVars, pipeVars, uiVars, stickerVars>>

\* A 5000 ms timer: URL.revokeObjectURL(imageBlobUrl).
RevokeTimerFires(j) ==
  /\ j \in 1..Len(jobs)
  /\ jobs[j].revokeTimers > 0
  /\ jobs' = [jobs EXCEPT ![j].revokeTimers = jobs[j].revokeTimers - 1,
                          ![j].revoked = jobs[j].revoked + 1,
                          ![j].pc = IF jobs[j].pc = "framegone" THEN "done"
                                    ELSE jobs[j].pc]
  /\ UNCHANGED <<modeVars, recVars, pipeVars, uiVars, stickerVars>>

\* A plausible slip: a cleanup() that forgets the URL.
OverlayCleanupKeepsUrl(job) ==
  [job EXCEPT !.overlay = "removed", !.style = "removed"]

\* The overlay's cleanup(): overlay and style removed, a revoke timer armed.
OverlayCleanup(job) ==
  [job EXCEPT !.overlay = "removed", !.style = "removed",
              !.revokeTimers = job.revokeTimers + 1]

\* "Print Now" on the overlay: window.print() opens the print dialog.
PrintNowClick(j) ==
  /\ j \in 1..Len(jobs)
  /\ jobs[j].overlay = "attached"
  /\ jobs[j].dialog # "open"
  /\ jobs' = [jobs EXCEPT ![j].windowPrints = jobs[j].windowPrints + 1,
                          ![j].dialog = "open"]
  /\ UNCHANGED <<modeVars, recVars, pipeVars, uiVars, stickerVars>>

\* "Cancel" on the overlay: cleanup().
CancelClick(j) ==
  /\ j \in 1..Len(jobs)
  /\ jobs[j].overlay = "attached"
  /\ jobs[j].dialog # "open"
  /\ jobs' = [jobs EXCEPT ![j] = OverlayCleanup(jobs[j])]
  /\ UNCHANGED <<modeVars, recVars, pipeVars, uiVars, stickerVars>>

\* The window's print dialog, opened for job j, closes and afterprint is
\* dispatched: every registered afterPrint listener times its cleanup
\* (500 ms) and removes itself.
AfterPrint(j) ==
  /\ j \in 1..Len(jobs)
  /\ jobs[j].pc = "overlay"
  /\ jobs[j].dialog = "open"
  /\ jobs' = [k \in 1..Len(jobs) |->
       LET heard == IF jobs[k].listener
                      THEN [jobs[k] EXCEPT !.listener = FALSE,
                              !.cleanupTimers = jobs[k].cleanupTimers + 1]
                      ELSE jobs[k]
       IN IF k = j THEN [heard EXCEPT !.dialog = "closed"] ELSE heard]
  /\ UNCHANGED <<modeVars, recVars, pipeVars, uiVars, stickerVars>>

\* The 500 ms timer of afterPrint: cleanup().
OverlayCleanupTimer(j) ==
  /\ j \in 1..Len(jobs)
  /\ jobs[j].cleanupTimers > 0
  /\ jobs' = [jobs EXCEPT ![j] =
       OverlayCleanup([jobs[j] EXCEPT !.cleanupTimers = jobs[j].cleanupTimers - 1])]
  /\ UNCHANGED <<modeVars, recVars, pipeVars, uiVars, stickerVars>>

\* Print jobs started, and presses of "Print Now" per job.
MaxPrintJobs == 1
MaxPrintNow == 1

\* One text turn, for an image to print.
FirstImage ==
  \/ (pipes = <<>> /\ \E typed \in TypedTexts : HandleTextGenerate(typed))
  \/ \E p \in 1..MaxTurns, res \in BackendResults : GenerateDone(p, res)

\* Rendering a sticker sheet: the cells, before and after the sheet's print
\* button is pressed, and the rasterization of the first sheet printed.
SheetNext ==
  \/ FirstImage
  \/ \E i \in 0..(ClickedCells - 1) : ToggleCell(i)
  \/ FillAllClick
  \/ ClearAllClick
  \/ (jobs = <<>> /\ PrintTemplateClick)
  \/ \E j \in 1..Len(jobs), ok \in BOOLEAN : LoadImageDone(j, ok, SquareSize)
  \/ \E j \in 1..Len(jobs), ok, doc, complete \in BOOLEAN :
       ToBlobDone(j, ok, doc, complete)

SpecSheet == Init /\ [][SheetNext]_vars

\* Printing the first image: the two print buttons and everything a print
\* job does after them.
PrintNext ==
  \/ FirstImage
  \/ FillAllClick
  \/ (Len(jobs) < MaxPrintJobs /\ PrintTemplateClick)
  \/ (Len(jobs) < MaxPrintJobs /\ PrintFullPageClick)
  \/ \E j \in 1..MaxPrintJobs, ok \in BOOLEAN : LoadImageDone(j, ok, SquareSize)
  \/ \E j \in 1..MaxPrintJobs, ok, doc, complete \in BOOLEAN :
       ToBlobDone(j, ok, doc, complete)
  \/ \E j \in 1..MaxPrintJobs : FrameImgLoad(j)
  \/ \E j \in 1..MaxPrintJobs : FrameImgError(j)
  \/ \E j \in 1..MaxPrintJobs, outcome \in FramePrintOutcomes : DoPrint(j, outcome)
  \/ \E j \in 1..MaxPrintJobs : FrameDialogCloses(j)
  \/ \E j \in 1..MaxPrintJobs : CleanupIframeTimer(j)
  \/ \E j \in 1..MaxPrintJobs : RevokeTimerFires(j)
  \/ \E j \in 1..MaxPrintJobs :
       (j <= Len(jobs) /\ jobs[j].windowPrints < MaxPrintNow /\ PrintNowClick(j))
  \/ \E j \in 1..MaxPrintJobs : CancelClick(j)
  \/ \E j \in 1..MaxPrintJobs : AfterPrint(j)
  \/ \E j \in 1..MaxPrintJobs : OverlayCleanupTimer(j)

SpecPrint == Init /\ [][PrintNext]_vars


\* --------------------------------------------------- properties of printing

\* The sheet of a job has been drawn and not thrown away.
SheetRendered(job) ==
  /\ job.mode = "sheet"
  /\ job.pc \notin {"load", "refused", "failed"}

\* One drawImage per cell of the job, none for any other cell, each at the
\* cell's place in row-major order: cell = 3 * row + col with rows 0..3 and
\* columns 0..2, a pitch apart from the margins.
DrawnRowMajor(job) ==
  /\ \A i \in Cells : (i \in job.cells) <=> (\E d \in job.drawn : d.cell = i)
  /\ Cardinality(job.drawn) = Cardinality(job.cells)
  /\ \A d \in job.drawn :
       /\ d.row \in 0..3
       /\ d.col \in 0..2
       /\ d.cell = 3 * d.row + d.col
       /\ d.x = leftMargin + d.col * hPitch
       /\ d.y = topMargin + d.row * vPitch

\* C5: a sheet job holds the cells that were filled when Print was pressed,
\* whatever is clicked later, and its sheet has the image in exactly those
\* cells, cell i at row i div 3 and column i mod 3.
C5_SheetDrawsFilledCellsRowMajor ==
  [][\A j \in 1..Len(jobs') :
       /\ (j > Len(jobs) /\ jobs'[j].mode = "sheet") => jobs'[j].cells = filled
       /\ j <= Len(jobs) => jobs'[j].cells = jobs[j].cells
       /\ SheetRendered(jobs'[j]) => DrawnRowMajor(jobs'[j])]_vars

\* A rendered sheet of some but not all cells, cell 11 among them, with the
\* cells changed since Print was pressed.
C5_Witness ==
  /\ jobs # <<>>
  /\ SheetRendered(jobs[1])
  /\ jobs[1].cells \notin {{}, Cells}
  /\ filled # jobs[1].cells
  /\ \E d \in jobs[1].drawn : d.cell = 11 /\ d.row = 3 /\ d.col = 2

\* Nothing has been made for the job: no drawing, no URL, no iframe, no
\* overlay, no print call, no timer.
NothingMade(job) ==
  /\ job.drawn = {}
  /\ job.blob = 0
  /\ job.iframe = "none"
  /\ job.overlay = "none"
  /\ job.style = "none"
  /\ job.framePrints = 0
  /\ job.windowPrints = 0
  /\ job.doPrintTimers + job.frameTimers + job.cleanupTimers + job.revokeTimers = 0

\* C6: a sheet print with no filled cell alerts the user and stops there:
\* nothing is ever rasterized, created or printed for it.
C6_EmptySheetRefused ==
  [][\A j \in 1..Len(jobs') :
       (jobs'[j].mode = "sheet" /\ jobs'[j].cells = {}) =>
         /\ jobs'[j].pc = "refused"
         /\ NothingMade(jobs'[j])
         /\ j > Len(jobs) => lastAlert' = AlertFillACell]_vars

\* A sheet print was refused for want of a filled cell.
C6_Witness ==
  /\ jobs # <<>>
  /\ jobs[1].mode = "sheet"
  /\ jobs[1].cells = {}
  /\ jobs[1].pc = "refused"
  /\ currentImageUrl # 0
  /\ lastAlert = AlertFillACell

\* The iframe attempt of job j fails in this step: no access to the iframe's
\* document, an image error, or print() throwing.
FrameAttemptFails(j) ==
  \/ \E complete \in BOOLEAN : ToBlobDone(j, TRUE, FALSE, complete)
  \/ FrameImgError(j)
  \/ DoPrint(j, "threw")

\* The overlay has taken the job over: iframe gone, overlay and style in the
\* document showing the job's URL, which is still valid, and the afterprint
\* listener registered.
FellBackToOverlay(job) ==
  /\ job.iframe = "removed"
  /\ job.overlay = "attached"
  /\ job.style = "attached"
  /\ job.listener
  /\ job.blob # 0
  /\ job.overlaySrc = job.blob
  /\ job.revoked = 0

\* C10: when the iframe attempt fails the iframe is removed and the overlay
\* is shown with the same URL; a job that has its URL is never left with
\* neither an iframe attempt nor an overlay.
C10_FrameFailureFallsBack ==
  [][\A j \in 1..Len(jobs) :
       /\ FrameAttemptFails(j) =>
            /\ FellBackToOverlay(jobs'[j])
            /\ jobs[j].blob # 0 => jobs'[j].blob = jobs[j].blob
       /\ jobs'[j].blob # 0 =>
            \/ jobs'[j].iframe = "attached"
            \/ jobs'[j].framePrints > 0
            \/ jobs'[j].overlay # "none"]_vars

\* print() threw in the iframe and the overlay shows the job's URL.
C10_Witness ==
  \E j \in 1..Len(jobs) :
    /\ jobs[j].via = "printthrew"
    /\ jobs[j].overlay = "attached"
    /\ jobs[j].overlaySrc = jobs[j].blob
    /\ jobs[j].iframe = "removed"


\* C11: window.print() is called only by a click on "Print Now", once per
\* click, and a click on "Cancel" removes the overlay with no print call
\* and no dialog.
C11_PrintOnlyOnPrintNow ==
  [][\A j \in 1..Len(jobs') :
       LET before == IF j <= Len(jobs) THEN jobs[j].windowPrints ELSE 0
       IN /\ jobs'[j].windowPrints # before =>
               /\ j <= Len(jobs)
               /\ PrintNowClick(j)
               /\ jobs'[j].windowPrints = before + 1
          /\ (j <= Len(jobs) /\ CancelClick(j)) =>
               /\ jobs'[j].overlay = "removed"
               /\ jobs'[j].windowPrints = before
               /\ jobs'[j].dialog = jobs[j].dialog]_vars

\* "Print Now" was clicked on an overlay entered after an image error, and
\* the window's print dialog is open.
C11_Witness ==
  \E j \in 1..Len(jobs) :
    /\ jobs[j].via = "imgerror"
    /\ jobs[j].overlay = "attached"
    /\ jobs[j].windowPrints = 1
    /\ jobs[j].dialog = "open"


\* A callback set with setTimeout runs: the 100 ms doPrint timer, the
\* 2000 ms iframe timer, the 500 ms cleanup timer, a 5000 ms revoke timer.
TimerCallback ==
  \E j \in 1..MaxPrintJobs :
    \/ \E outcome \in FramePrintOutcomes : DoPrint(j, outcome)
    \/ CleanupIframeTimer(j)
    \/ OverlayCleanupTimer(j)
    \/ RevokeTimerFires(j)

\* While a timer is pending the browser goes on running timer callbacks.
TimersFire == WF_vars(TimerCallback)

SpecPrintFair == SpecPrint /\ TimersFire

\* The print of the job is over: its dialog has closed, or its overlay was
\* taken away by "Cancel" (or by a cleanup).
PrintEnded(job) ==
  \/ job.framePrints > 0 /\ job.dialog = "closed"
  \/ job.windowPrints > 0 /\ job.dialog = "closed"
  \/ job.overlay = "removed"

\* No temporary node of the job is in the document and its URL is revoked.
Released(job) ==
  /\ job.iframe # "attached"
  /\ job.overlay # "attached"
  /\ job.style # "attached"
  /\ job.revoked >= 1

\* C12: once the print of a job is over, on the iframe path or the overlay
\* path, printed or cancelled, its iframe, overlay and style are eventually
\* out of the document and its URL is eventually revoked.
C12_EndedJobIsReleased ==
  \A j \in 1..MaxPrintJobs :
    (j <= Len(jobs) /\ PrintEnded(jobs[j]))
      ~> (j <= Len(jobs) /\ Released(jobs[j]))

\* An overlay job was printed, and all of it has been released.
C12_Witness ==
  \E j \in 1..Len(jobs) :
    /\ jobs[j].via # "none"
    /\ jobs[j].windowPrints > 0
    /\ jobs[j].dialog = "closed"
    /\ Released(jobs[j])


\* C13: while the print dialog of a job is open, the node that carries its
\* page (the iframe, or the overlay once entered) is in the document and
\* its URL is not revoked.
C13_NoReleaseWhileDialogOpen ==
  \A j \in 1..Len(jobs) :
    jobs[j].dialog = "open" =>
      /\ jobs[j].revoked = 0
      /\ IF jobs[j].overlay = "none"
           THEN jobs[j].iframe = "attached"
           ELSE jobs[j].overlay = "attached"


\* The rasterization of job j fails in this step: the source image does not
\* decode, or toBlob yields no blob.
RasterFails(j) ==
  \/ \E size \in ImageSizes : LoadImageDone(j, FALSE, size)
  \/ \E doc, complete \in BOOLEAN : ToBlobDone(j, FALSE, doc, complete)

\* No print action was taken for the job: no URL, no iframe, no overlay, no
\* print call, no timer.
NoPrintArtifact(job) ==
  /\ job.blob = 0
  /\ job.iframe = "none"
  /\ job.overlay = "none"
  /\ job.style = "none"
  /\ job.framePrints = 0
  /\ job.windowPrints = 0
  /\ job.doPrintTimers + job.frameTimers + job.cleanupTimers + job.revokeTimers = 0

\* C14: a rasterization failure, in full page or sheet printing, alerts the
\* user and ends the job with no URL, iframe, overlay or print call, and
\* nothing is done for the job afterwards.
C14_RasterFailureAborts ==
  [][\A j \in 1..Len(jobs) :
       /\ RasterFails(j) =>
            /\ jobs'[j].pc = "failed"
            /\ lastAlert' = AlertPrintFailed
            /\ NoPrintArtifact(jobs'[j])
       /\ jobs[j].pc = "failed" => jobs'[j] = jobs[j]]_vars

\* A full page print whose canvas was drawn and whose toBlob gave no blob.
C14_Witness ==
  \E j \in 1..Len(jobs) :
    /\ jobs[j].mode = "fullpage"
    /\ jobs[j].pc = "failed"
    /\ jobs[j].drawn # {}
    /\ lastAlert = AlertPrintFailed


\* How far a temporary node has come: not made, in the document, removed.
NodeRank(node) ==
  CASE node = "none" -> 0
    [] node = "attached" -> 1
    [] node = "removed" -> 2

\* C15: the print of a job runs one way.  The iframe is attached at most
\* once and print() is called in it at most once; the overlay is attached at
\* most once, only when the iframe attempt has failed without printing, and
\* from then on nothing of the iframe attempt happens again.
C15_DispatcherIsLinear ==
  [][\A j \in 1..Len(jobs) :
       /\ NodeRank(jobs'[j].iframe) >= NodeRank(jobs[j].iframe)
       /\ NodeRank(jobs'[j].overlay) >= NodeRank(jobs[j].overlay)
       /\ jobs'[j].framePrints >= jobs[j].framePrints
       /\ jobs'[j].framePrints <= 1
       /\ jobs'[j].blob # 0 => jobs'[j].iframe # "none"
       /\ (jobs[j].overlay = "none" /\ jobs'[j].overlay # "none") =>
            /\ jobs'[j].overlay = "attached"
            /\ jobs'[j].via # "none"
            /\ jobs'[j].iframe = "removed"
            /\ jobs'[j].framePrints = 0
       /\ jobs[j].overlay # "none" =>
            /\ jobs'[j].pc = "overlay"
            /\ jobs'[j].iframe = "removed"
            /\ jobs'[j].framePrints = 0
            /\ jobs'[j].doPrintTimers = 0
            /\ jobs'[j].frameTimers = 0
            /\ jobs'[j].via = jobs[j].via]_vars

\* A job went from the iframe to the overlay and through cleanup.
C15_Witness ==
  \E j \in 1..Len(jobs) :
    /\ jobs[j].via = "imgerror"
    /\ jobs[j].iframe = "removed"
    /\ jobs[j].overlay = "removed"
    /\ jobs[j].revoked >= 1


\* ----------------------------------------------------------- rasterization

\* Rasterizing the first print of an image of any of the sizes: a full page,
\* or a sheet of all the cells.
RasterNext ==
  \/ FirstImage
  \/ FillAllClick
  \/ (jobs = <<>> /\ PrintFullPageClick)
  \/ (jobs = <<>> /\ PrintTemplateClick)
  \/ \E j \in 1..Len(jobs), ok \in BOOLEAN, size \in ImageSizes :
       LoadImageDone(j, ok, size)
  \/ \E j \in 1..Len(jobs), ok, doc, complete \in BOOLEAN :
       ToBlobDone(j, ok, doc, complete)

SpecRaster == Init /\ [][RasterNext]_vars

\* A draw of an image of imgW by imgH into the rectangle rect (in den-ths of
\* a pixel) of a canvas of width by height is a contain-fit: inside the
\* canvas, centred, of the image's shape, and as wide or as high as the
\* canvas.
IsContainFit(rect, imgW, imgH, width, height) ==
  /\ rect.den > 0
  /\ rect.w > 0
  /\ rect.h > 0
  /\ rect.x >= 0
  /\ rect.y >= 0
  /\ rect.x + rect.w <= width * rect.den
  /\ rect.y + rect.h <= height * rect.den
  /\ 2 * rect.x + rect.w = width * rect.den
  /\ 2 * rect.y + rect.h = height * rect.den
  /\ rect.w * imgH = rect.h * imgW
  /\ (rect.w = width * rect.den \/ rect.h = height * rect.den)

\* C16: whatever the size of the source image, the full page canvas is 1275
\* by 1650 pixels with a white background and the image is drawn on it once,
\* contain-fit.
C16_FullPageContainFit ==
  \A j \in 1..Len(jobs) :
    (jobs[j].mode = "fullpage" /\ jobs[j].img # <<0, 0>>) =>
      /\ Cardinality(jobs[j].drawn) = 1
      /\ \A d \in jobs[j].drawn :
           /\ d.canvasWidth = 1275
           /\ d.canvasHeight = 1650
           /\ d.background = "white"
           /\ IsContainFit(d.rect, jobs[j].img[1], jobs[j].img[2], 1275, 1650)

\* A landscape image was drawn for a full page print, and the print went on.
C16_Witness ==
  \E j \in 1..Len(jobs) :
    /\ jobs[j].mode = "fullpage"
    /\ jobs[j].img = <<640, 480>>
    /\ jobs[j].pc \in {"printwait", "frameload"}
    /\ \E d \in jobs[j].drawn : d.rect.y > 0 /\ d.rect.x = 0


\* ------------------------------------------ properties of the sticker state

\* C17: a click on "new sticker", in any state, leaves no cell filled, no
\* current image, full page mode, the template section hidden and the
\* record button shown.
C17_NewStickerResets ==
  [][NewStickerClick =>
       /\ filled' = {}
       /\ currentImageUrl' = 0
       /\ currentPrintMode' = "fullpage"
       /\ ~templateShown'
       /\ recordBtnShown']_vars

\* The state after a reset that followed two generations.
C17_Witness ==
  /\ Len(genUrls) = 2
  /\ currentImageUrl = 0
  /\ filled = {}
  /\ currentPrintMode = "fullpage"
  /\ ~templateShown
  /\ recordBtnShown

\* C18: a successful generation, whatever the mode before it, leaves full
\* page mode, the preview and the full page images showing the new image
\* and the template section shown; and "fill all" with a current image
\* fills all 12 cells.
C18_GenerationShowsFullPage ==
  [][/\ (\E p \in 1..Len(pipes) : GenerateDone(p, "image")) =>
          /\ currentImageUrl' = Len(genUrls')
          /\ currentImageUrl' # currentImageUrl
          /\ currentPrintMode' = "fullpage"
          /\ previewShown'
          /\ previewSrc' = currentImageUrl'
          /\ fullpageSrc' = currentImageUrl'
          /\ templateShown'
     /\ (FillAllClick /\ currentImageUrl # 0) =>
          /\ filled' = Cells
          /\ Cardinality(filled') = 12]_vars

\* Every cell is filled under a second image, in sticker mode.
C18_Witness ==
  /\ currentImageUrl = 2
  /\ previewSrc = 2
  /\ fullpageSrc = 2
  /\ currentPrintMode = "sticker"
  /\ filled = Cells

\* A draw of a source image of imgW by imgH pixels that covers the label's
\* bounding square and keeps the source's aspect ratio.
IsCoverFit(d, imgW, imgH) ==
  /\ d.w >= labelSize
  /\ d.h >= labelSize
  /\ d.w * imgH = d.h * imgW

\* C19: on a rendered sheet every filled label is drawn cover-fit: the drawn
\* image covers the label's circle and keeps the aspect ratio of the source
\* image, whatever the size of the source image.
C19_LabelsCoverFit ==
  \A j \in 1..Len(jobs) :
    (jobs[j].mode = "sheet" /\ jobs[j].drawn # {}) =>
      \A d \in jobs[j].drawn : IsCoverFit(d, jobs[j].img[1], jobs[j].img[2])

\* ------------------------------------------------ the generation mode

\* What detectCapabilities() can do.
DetectOutcomes == {"webgpu", "wasm", "none", "throws"}

\* checkDeviceCapabilities(): local support with WebGPU or WASM; none
\* otherwise, and none when the detection throws.
CheckDeviceCapabilities(outcome) == outcome \in {"webgpu", "wasm"}

\* initApp() on every device: any detection outcome, with or without a
\* stored key.
ModeInit ==
  \E outcome \in DetectOutcomes, hasKey \in BOOLEAN, loaded \in BOOLEAN :
    /\ loaded => CheckDeviceCapabilities(outcome)
    /\ AppInit(CheckDeviceCapabilities(outcome), hasKey, loaded)

ModeNext ==
  \/ GeminiModeClick
  \/ LocalModeClick
  \/ \E confirmed \in BOOLEAN : SettingsClick(confirmed)
  \/ \E typed \in TypedKeys : SaveApiKeyClick(typed)
  \/ SkipApiKeyClick
  \/ (turns < MaxTurns /\ \E typed \in TypedTexts : HandleTextGenerate(typed))
  \/ \E p \in 1..MaxTurns, res \in BackendResults : GenerateDone(p, res)

SpecMode == ModeInit /\ [][ModeNext]_vars

\* C20: whenever the main app is shown, local mode is the current mode only
\* on a device with local support and Gemini mode only with a stored key.
C20_ShownModeIsUsable ==
  screen = "main" =>
    /\ currentMode = "local" => deviceSupportsLocal
    /\ currentMode = "gemini" => storedKey

\* The main app in local mode with no key, after a Gemini generation: the
\* key was cleared from Gemini mode.
C20_Witness ==
  /\ screen = "main"
  /\ currentMode = "local"
  /\ deviceSupportsLocal
  /\ ~storedKey
  /\ \E u \in 1..Len(genUrls) : genUrls[u].kind = "data"

\* --------------------------------------- the backends and their conditions

\* The first voice or text turn on any device, while the user changes the
\* mode, adds or clears the key, and the first model load settles.
BackendNext ==
  \/ (turns < MaxTurns /\ PointerDown)
  \/ MicGranted
  \/ PointerUp
  \/ (pipes = <<>> /\ OnStop)
  \/ \E text \in Transcripts : TranscribeDone(1, text)
  \/ (pipes = <<>> /\ \E typed \in TypedTexts : HandleTextGenerate(typed))
  \/ \E res \in BackendResults : GenerateDone(1, res)
  \/ GeminiModeClick
  \/ (Len(downloads) < MaxDownloads /\ LocalModeClick)
  \/ \E confirmed \in BOOLEAN :
       Len(downloads) < MaxDownloads /\ SettingsClick(confirmed)
  \/ \E typed \in TypedKeys : SaveApiKeyClick(typed)
  \/ \E res \in LoadModelResults : LoadModelDone(1, res)

SpecBackend == ModeInit /\ [][BackendNext]_vars

\* The backend of the current mode can be called: the local pipeline with
\* the model loaded, the cloud API with a client.
BackendUsable ==
  \/ currentMode = "local" /\ localModelLoaded
  \/ currentMode = "gemini" /\ ai

\* A prompt that passes generateImage's first guard.
ValidPrompt(prompt) == prompt # <<>> /\ prompt # TranscribingText

\* Pipeline p starts a backend call in this step.
CallsBackend(p) ==
  /\ p \in 1..Len(pipes')
  /\ pipes'[p].pc = "generating"
  /\ (p > Len(pipes) \/ pipes[p].pc # "generating")

\* What a refused request of pipeline p leaves: the pipeline over with no
\* backend called, the alert of the current mode, the sticker state as it
\* was.
RefusedPost(p) ==
  /\ pipes'[p].pc = "done"
  /\ pipes'[p].backend = "none"
  /\ lastAlert' = (IF currentMode = "local" THEN AlertNotLoaded ELSE AlertNoKey)
  /\ UNCHANGED stickerVars

\* An image becomes current only in a step where a backend call that was
\* in flight answers with an image.
ImageOnlyFromBackend ==
  (currentImageUrl' # currentImageUrl /\ currentImageUrl' # 0) =>
    \E p \in 1..Len(pipes) :
      /\ pipes[p].pc = "generating"
      /\ pipes[p].backend \in {"local", "gemini"}
      /\ pipes'[p].out = "image"

\* A backend is called only for the current mode and under its condition.
CallsOnlyWhenUsable ==
  \A p \in 1..MaxTurns :
    CallsBackend(p) =>
      /\ pipes'[p].backend = currentMode
      /\ BackendUsable

\* C21 (as amended): the cloud API is called only while a client exists and
\* the local pipeline only with the model loaded; a generateImage call with
\* a prompt that is neither empty nor the literal "Transcribing...", made
\* while the backend of the current mode cannot be called, calls no backend,
\* alerts, and changes no sticker state; and an image becomes current only
\* when a backend answers with one.
C21_BackendOnlyWhenUsable ==
  [][/\ CallsOnlyWhenUsable
     /\ ImageOnlyFromBackend
     /\ \A text \in Transcripts :
          (/\ TranscribeDone(1, text)
           /\ ~AbortsTurn[text]
           /\ ValidPrompt(text)
           /\ ~BackendUsable) => RefusedPost(1)
     /\ \A typed \in TypedTexts :
          (/\ HandleTextGenerate(typed)
           /\ ValidPrompt(Trim(typed))
           /\ ~BackendUsable) => RefusedPost(1)]_vars

\* A voice turn was refused for want of a client, the key having been
\* cleared from Gemini mode on a device without local support.
C21_Witness ==
  /\ Len(pipes) = 1
  /\ pipes[1].kind = "voice"
  /\ pipes[1].out = "nokey"
  /\ lastAlert = AlertNoKey
  /\ ~ai
  /\ screen = "setup"
  /\ currentImageUrl = 0

\* C21 as stated: every generateImage call made while the backend of the
\* current mode cannot be called alerts.
C21_EveryRefusedRequestAlerts ==
  [][/\ \A text \in Transcripts :
          (/\ TranscribeDone(1, text)
           /\ ~AbortsTurn[text]
           /\ ~BackendUsable) => RefusedPost(1)
     /\ \A typed \in TypedTexts :
          (/\ HandleTextGenerate(typed)
           /\ Trim(typed) # <<>>
           /\ ~BackendUsable) => RefusedPost(1)]_vars

\* ------------------------------------------------ the print image's handle

\* C22: the blob URL made for a print job is revoked at most once, and no
\* second revocation of it is ever due: the job's cleanup runs at most once.
C22_HandleRevokedAtMostOnce ==
  \A j \in 1..Len(jobs) : jobs[j].revoked + jobs[j].revokeTimers <= 1

\* --------------------------------------------- properties of the download

\* initApp() on a device with local support, just over: setLocalMode() has
\* called startModelDownload(), which waits for isModelCached().
LoadInit ==
  \E hasKey \in BOOLEAN : AppInitAt(TRUE, hasKey, "cache")

\* The model download, and every handler that calls setLocalMode() or
\* retryDownload().
LoadNext ==
  \/ (Len(downloads) < MaxDownloads /\ LocalModeClick)
  \/ GeminiModeClick
  \/ \E confirmed \in BOOLEAN :
       Len(downloads) < MaxDownloads /\ SettingsClick(confirmed)
  \/ \E typed \in TypedKeys : SaveApiKeyClick(typed)
  \/ (Len(downloads) < MaxDownloads /\ SkipApiKeyClick)
  \/ (Len(downloads) < MaxDownloads /\ RetryDownload)
  \/ \E d \in 1..MaxDownloads, cached \in BOOLEAN : CacheCheckDone(d, cached)
  \/ \E d \in 1..MaxDownloads, ok \in BOOLEAN : DetectDone(d, ok)
  \/ \E d \in 1..MaxDownloads, res \in LoadModelResults : LoadModelDone(d, res)
  \/ ReadyTimerFires

SpecLoad == LoadInit /\ [][LoadNext]_vars

\* A load attempt of download d failed: loadModel() answered not ok, or
\* loadModel() or detectCapabilities() threw.
LoadFailed(d) == downloads[d].out \in {"notok", "threw"}

\* C23: the download card is in its failed state (error class, retry
\* listener) only if some load attempt has failed.
C23_FailedCardMeansFailedLoad ==
  (card.error \/ card.retryListener) =>
    \E d \in 1..Len(downloads) : LoadFailed(d)

\* Download d is inside loadLocalModel, between setting and clearing
\* localModelLoading.
LoadInFlight(d) == downloads[d].pc \in {"detect", "load"}

LoadsInFlight == {d \in 1..Len(downloads) : LoadInFlight(d)}

\* At most one load is in flight, and localModelLoading says whether one is.
OneLoad ==
  /\ Cardinality(LoadsInFlight) <= 1
  /\ localModelLoading = (LoadsInFlight # {})
  /\ localModelLoaded = (\E d \in 1..Len(downloads) : downloads[d].out = "ok")

\* The handlers a user sets off that may call startModelDownload().
UserStartsDownload ==
  \/ LocalModeClick
  \/ SkipApiKeyClick
  \/ RetryDownload
  \/ \E confirmed \in BOOLEAN : SettingsClick(confirmed)

\* C24: at most one load is in flight at a time; no load begins once the
\* model is loaded; localModelLoading is true exactly while a load is in
\* flight; a startModelDownload call is made only by a handler the user
\* sets off, and the step in which a load fails starts none and leaves no
\* load in flight.
C24_OneLoadAtATime ==
  /\ OneLoad
  /\ [][/\ OneLoad'
        /\ localModelLoaded =>
             \A d \in 1..Len(downloads') :
               LoadInFlight(d)' => (d <= Len(downloads) /\ LoadInFlight(d))
        /\ Len(downloads') > Len(downloads) => UserStartsDownload
        /\ \A d \in 1..Len(downloads) :
             (~LoadFailed(d) /\ LoadFailed(d)') =>
               /\ Len(downloads') = Len(downloads)
               /\ LoadsInFlight' = {}
               /\ ~localModelLoading']_vars

\* A load failed, the user retried, and the second load succeeded.
C24_Witness ==
  /\ Len(downloads) = 2
  /\ downloads[1].out = "notok"
  /\ downloads[2].out = "ok"
  /\ localModelLoaded
  /\ ~localModelLoading
  /\ ~card.retryListener

\* ------------------------------------------------------- press and hold

\* C25: while the record button is not held (after a pointerup or a
\* pointerleave, until the next pointerdown) no MediaRecorder is recording.
C25_RecordsOnlyWhileHeld ==
  ~held => \A r \in 1..Len(recs) : recs[r].state # "recording"

\* --------------------------------------------------- failed generations

\* What a failed generation may not change.
Kept == <<currentImageUrl, filled, currentPrintMode>>

\* The backend answers that carry no image.
FailedResults == {"noimage", "error"}

\* C26: no step of a generation that fails changes the current image, a
\* cell's filled flag or the print mode: neither the request, whether it
\* returns early (no valid prompt, local model not loaded, no client) or
\* calls the backend, nor the backend's answer when it throws or carries no
\* image.
C26_FailedGenerationKeepsStickers ==
  [][/\ \A typed \in TypedTexts :
          HandleTextGenerate(typed) => UNCHANGED Kept
     /\ \A p \in 1..MaxTurns, res \in FailedResults :
          GenerateDone(p, res) => UNCHANGED Kept]_vars

\* The second generation failed with some cells filled in sticker mode
\* under the first image.
C26_Witness ==
  /\ Len(pipes) = 2
  /\ pipes[1].out = "image"
  /\ pipes[2].out \in FailedResults \cup {"notloaded", "nokey", "noprompt"}
  /\ currentImageUrl = 1
  /\ filled # {}
  /\ currentPrintMode = "sticker"

\* ------------------------------------------------ the key and the client

\* The client exists exactly when a key is stored.
ClientIffKey == (ai = storedKey)

\* The keys that are empty after trimming.
BlankKeys == {typed \in TypedKeys : Trim(typed) = <<>>}

\* C27: the cloud client exists if and only if a key is stored, after any
\* sequence of saving and clearing a key; and saving an empty or
\* whitespace-only key alerts and changes neither the stored key, the
\* client, the mode nor the screen.
C27_ClientIffKeyStored ==
  /\ ClientIffKey
  /\ [][/\ ClientIffKey'
        /\ \A typed \in BlankKeys :
             SaveApiKeyClick(typed) =>
               /\ lastAlert' = "Please enter an API key"
               /\ UNCHANGED <<storedKey, ai, currentMode, screen>>]_vars

\* A blank key was refused on the setup screen, after the key of a device
\* without local support had been cleared.
C27_Witness ==
  /\ lastAlert = "Please enter an API key"
  /\ screen = "setup"
  /\ ~storedKey
  /\ ~ai
  /\ currentMode = "gemini"

\* ------------------------------------------------- the sheet's geometry

\* The bounding square of a drawn label lies on the page of 1275 by 1650
\* pixels and has a side of 300 pixels (lengths in tenths of a pixel).
OnPage(d) ==
  /\ d.w = 3000
  /\ d.h = 3000
  /\ 0 <= d.x
  /\ d.x + 3000 <= 12750
  /\ 0 <= d.y
  /\ d.y + 3000 <= 16500

\* The closed bounding squares of two drawn labels share no point.
Apart(d, e) ==
  \/ d.x + 3000 < e.x
  \/ e.x + 3000 < d.x
  \/ d.y + 3000 < e.y
  \/ e.y + 3000 < d.y

\* C28: on a rendered sheet the bounding square of every label drawn, for
\* every cell index 0..11, lies inside the page, and the squares of two
\* distinct cells do not overlap.
C28_LabelsOnPageAndApart ==
  \A j \in 1..Len(jobs) :
    jobs[j].mode = "sheet" =>
      /\ \A d \in jobs[j].drawn : d.cell \in 0..11 /\ OnPage(d)
      /\ \A d, e \in jobs[j].drawn : d.cell # e.cell => Apart(d, e)

\* A sheet with all twelve labels drawn, one per cell index.
C28_Witness ==
  \E j \in 1..Len(jobs) :
    /\ jobs[j].mode = "sheet"
    /\ {d.cell : d \in jobs[j].drawn} = 0..11
    /\ Cardinality(jobs[j].drawn) = 12

====
